---- MODULE Spec2Model ----
\* Merge-request review service: the diff-position resolver and fallback of
\* GitLabService.createDiscussion, the threshold pipeline (reviewCode +
\* webhook / review_code tool publisher) and the categorical pipeline
\* (reviewMergeRequest + extractRecommendation).
\*
\* Text is modelled as a sequence of one-character strings, so that
\* split, startsWith, includes and the regular-expression match are computed
\* as the code computes them.
EXTENDS Integers, Sequences, FiniteSets, TLC

\* ---------------------------------------------------------------- bounds
MaxDiffLines == 3     \* lines of a file diff
MaxLine == 4          \* requested line numbers are 0..MaxLine
MaxFiles == 2         \* changed files of a merge request (besides the bulk change-sets)
MaxComments == 2      \* specific comments of one review
MaxRuns == 2          \* triggers received for the same merge request

\* ------------------------------------------------------------ text helpers
NL == "\n"

\* s.startsWith(c) for a one-character c
StartsWith(s, c) == Len(s) > 0 /\ s[1] = c

\* s.includes(c) for a one-character c
Includes(s, c) == \E i \in 1..Len(s) : s[i] = c

\* position of the first separator in s at or after i, or Len(s)+1
RECURSIVE NextSep(_, _, _)
NextSep(s, sep, i) ==
  IF i > Len(s) THEN Len(s) + 1
  ELSE IF s[i] = sep THEN i ELSE NextSep(s, sep, i + 1)

\* s.split(sep): the pieces between separators ("" splits to one empty piece)
RECURSIVE SplitFrom(_, _, _)
SplitFrom(s, sep, i) ==
  LET j == NextSep(s, sep, i)
      piece == SubSeq(s, i, j - 1)
  IN IF j > Len(s) THEN <<piece>> ELSE <<piece>> \o SplitFrom(s, sep, j + 1)

Split(s, sep) == SplitFrom(s, sep, 1)

\* lines.join(sep)
RECURSIVE Join(_, _)
Join(lines, sep) ==
  IF Len(lines) = 0 THEN <<>>
  ELSE IF Len(lines) = 1 THEN lines[1]
  ELSE lines[1] \o <<sep>> \o Join(Tail(lines), sep)

\* sequences over S of length lo..hi
SeqsOf(S, lo, hi) == UNION { [1..n -> S] : n \in lo..hi }

\* ------------------------------------------------------- diff text inputs
HdrLine == <<"@", "@", " ", "-", "1", " ", "+", "1", " ", "@", "@">>
Hdr3Line == <<"@", "@", " ", "-", "3", " ", "+", "3", " ", "@", "@">>
AddLine == <<"+", "x">>
DelLine == <<"-", "x">>
CtxLine == <<" ", "x">>
EmptyLine == <<>>
DiffLineKinds == {HdrLine, Hdr3Line, AddLine, DelLine, CtxLine, EmptyLine}

\* the diff texts a change can carry: 1..MaxDiffLines lines joined by "\n"
DiffTexts == { Join(ls, NL) : ls \in SeqsOf(DiffLineKinds, 1, MaxDiffLines) }



\* ------------------------------------------------- extractRecommendation
\* c.toUpperCase() for one character
UpperChar(c) ==
    CASE c = "a" -> "A"
      [] c = "b" -> "B"
      [] c = "c" -> "C"
      [] c = "d" -> "D"
      [] c = "e" -> "E"
      [] c = "f" -> "F"
      [] c = "g" -> "G"
      [] c = "h" -> "H"
      [] c = "i" -> "I"
      [] c = "j" -> "J"
      [] c = "k" -> "K"
      [] c = "l" -> "L"
      [] c = "m" -> "M"
      [] c = "n" -> "N"
      [] c = "o" -> "O"
      [] c = "p" -> "P"
      [] c = "q" -> "Q"
      [] c = "r" -> "R"
      [] c = "s" -> "S"
      [] c = "t" -> "T"
      [] c = "u" -> "U"
      [] c = "v" -> "V"
      [] c = "w" -> "W"
      [] c = "x" -> "X"
      [] c = "y" -> "Y"
      [] c = "z" -> "Z"
      [] OTHER -> c

\* s.toUpperCase()
ToUpperCase(s) == [i \in 1..Len(s) |-> UpperChar(s[i])]

\* \s
IsSpace(c) == c \in {" ", NL, "\t"}

T_Header == <<"#", "#", " ", "R", "e", "c", "o", "m", "m", "e", "n", "d", "a", "t", "i", "o", "n">>
L_APPROVE == <<"A", "P", "P", "R", "O", "V", "E">>
L_MINOR == <<"A", "P", "P", "R", "O", "V", "E", " ", "W", "I", "T", "H", " ", "M", "I", "N", "O", "R", " ", "C", "H", "A", "N", "G", "E", "S">>
L_REQUEST == <<"R", "E", "Q", "U", "E", "S", "T", " ", "C", "H", "A", "N", "G", "E", "S">>
L_PENDING == <<"P", "E", "N", "D", "I", "N", "G", " ", "R", "E", "V", "I", "E", "W">>

\* the alternation (APPROVE|APPROVE WITH MINOR CHANGES|REQUEST CHANGES), in
\* the order the pattern lists it
Alternatives == <<L_APPROVE, L_MINOR, L_REQUEST>>

\* pat matches text at position p, ignoring case (the /i flag)
MatchesAt(text, p, pat) ==
  /\ p + Len(pat) - 1 <= Len(text)
  /\ \A k \in 1..Len(pat) : UpperChar(text[p + k - 1]) = UpperChar(pat[k])

\* the first alternative that matches at p (0: none); the pattern ends with
\* the group, so the first alternative that matches is the one captured
FirstAlternative(text, p) ==
  IF \E a \in 1..Len(Alternatives) : MatchesAt(text, p, Alternatives[a])
    THEN CHOOSE a \in 1..Len(Alternatives) :
           /\ MatchesAt(text, p, Alternatives[a])
           /\ \A b \in 1..(a - 1) : ~MatchesAt(text, p, Alternatives[b])
    ELSE 0

\* the number of whitespace characters from position j on
RECURSIVE SpaceRun(_, _)
SpaceRun(text, j) ==
  IF j <= Len(text) /\ IsSpace(text[j]) THEN 1 + SpaceRun(text, j + 1) ELSE 0

\* \s+ then the group, from position j: greedy, giving back one character at a
\* time; the captured text, or <<>>
RECURSIVE GroupAfterSpaces(_, _, _)
GroupAfterSpaces(text, j, k) ==
  IF k < 1 THEN <<>>
  ELSE LET a == FirstAlternative(text, j + k) IN
    IF a # 0 THEN SubSeq(text, j + k, j + k + Len(Alternatives[a]) - 1)
    ELSE GroupAfterSpaces(text, j, k - 1)

\* overallReview.match(...): the leftmost match's group 1, or <<>>
RECURSIVE MatchFrom(_, _)
MatchFrom(text, i) ==
  IF i > Len(text) THEN <<>>
  ELSE LET j == i + Len(T_Header)
           g == IF MatchesAt(text, i, T_Header)
                  THEN GroupAfterSpaces(text, j, SpaceRun(text, j))
                  ELSE <<>>
       IN IF g # <<>> THEN g ELSE MatchFrom(text, i + 1)

\* a variant that takes a narrative without a label for an approval
extractRecommendation_DefaultApprove(overallReview) ==
  LET recommendationMatch == MatchFrom(overallReview, 1) IN
  IF recommendationMatch # <<>> THEN ToUpperCase(recommendationMatch) ELSE L_APPROVE

extractRecommendation(overallReview) ==
  LET recommendationMatch == MatchFrom(overallReview, 1) IN
  IF recommendationMatch # <<>> THEN ToUpperCase(recommendationMatch) ELSE L_PENDING

\* ------------------------------------------------------ overall narratives
T_Stub == <<"E", "r", "r", "o", "r", " ", "g", "e", "n", "e", "r", "a", "t", "i", "n", "g", " ", "o", "v", "e", "r", "a", "l", "l", " ", "r", "e", "v", "i", "e", "w", ".", " ", "P", "l", "e", "a", "s", "e", " ", "c", "h", "e", "c", "k", " ", "t", "h", "e", " ", "l", "o", "g", "s", ".">>
T_Summary == <<"#", "#", " ", "S", "u", "m", "m", "a", "r", "y", NL, "o", "k", NL, NL>>
T_Actions == <<NL, NL, "#", "#", " ", "A", "c", "t", "i", "o", "n", " ", "I", "t", "e", "m", "s", NL, "-", " ", "n", "o", "n", "e">>
T_LGTM == <<"L", "G", "T", "M">>
T_Bold == <<"*", "*", "A", "P", "P", "R", "O", "V", "E", "*", "*">>
T_lower == <<"#", "#", " ", "r", "e", "c", "o", "m", "m", "e", "n", "d", "a", "t", "i", "o", "n", " ", NL, " ", "r", "e", "q", "u", "e", "s", "t", " ", "c", "h", "a", "n", "g", "e", "s">>

\* a narrative in the requested format: the header, white space, the label
Narrative(pre, label, suf) == pre \o T_Header \o <<NL>> \o label \o suf

Labels == {L_APPROVE, L_MINOR, L_REQUEST}

\* narratives whose header is followed by one of the three labels
LabelledNarratives ==
  { Narrative(<<>>, l, <<>>) : l \in Labels } \cup { Narrative(T_Summary, l, T_Actions) : l \in Labels }

\* narratives with no label after the header: the stub, the empty text, no
\* header, a header followed by other text, a header with no white space
\* before the label, a label that only precedes the header
UnlabelledNarratives ==
  { T_Stub, <<>>, T_Summary,
    Narrative(T_Summary, T_LGTM, T_Actions),
    Narrative(<<>>, T_Bold, <<>>),
    T_Header \o L_APPROVE,
    L_APPROVE \o <<NL>> \o T_Header,
    L_APPROVE \o <<NL>> \o T_Header \o <<NL>> }

\* what the overall-review call can answer
Narratives ==
  LabelledNarratives \cup UnlabelledNarratives
    \cup { T_lower, Narrative(<<>>, T_LGTM, <<NL>>) \o Narrative(<<>>, L_REQUEST, <<>>) }

\* ------------------------------------------------------------------ paths
\* a path is its text cut at "/" and "." (the separators kept as tokens)
P_app == <<"src", "/", "app", ".", "js">>
P_old == <<"src", "/", "old", ".", "js">>
P_zz == <<"src", "/", "zz", ".", "js">>
P_gone == <<"src", "/", "gone", ".", "js">>
P_big == <<"src", "/", "big", ".", "js">>
P_readme == <<"README", ".", "md">>
P_docsReadme == <<"docs", "/", "README", ".", "md">>
P_logo == <<"assets", "/", "logo", ".", "PNG">>
P_license == <<"LICENSE">>

\* position of the last token sep in s (0: none)
RECURSIVE LastSep(_, _, _)
LastSep(s, sep, i) ==
  IF i < 1 THEN 0 ELSE IF s[i] = sep THEN i ELSE LastSep(s, sep, i - 1)

\* s.split(sep).pop(): what follows the last separator (all of s without one)
SplitPop(s, sep) == SubSeq(s, LastSep(s, sep, Len(s)) + 1, Len(s))

\* the final path segment
Basename(path) == SplitPop(path, "/")

\* toLowerCase of a token
LowerToken(t) ==
  CASE t = "PNG" -> "png"
    [] t = "README" -> "readme"
    [] t = "LICENSE" -> "license"
    [] t = "T" -> "t"
    [] t = "Function" -> "function"
    [] t = "Promise.all" -> "promise.all"
    [] OTHER -> t

ToLowerCase(s) == [i \in 1..Len(s) |-> LowerToken(s[i])]

\* file.new_path.split('.').pop().toLowerCase()
getFileExtension(filePath) == ToLowerCase(SplitPop(filePath, "."))

excludedExtensions ==
  { <<"md">>, <<"txt">>, <<"json">>, <<"lock">>, <<"png">>, <<"jpg">>, <<"jpeg">>,
    <<"gif">>, <<"svg">> }

shouldReviewFile(file) == getFileExtension(file.new_path) \notin excludedExtensions

defaultIgnoreFiles ==
  << <<".", "gitignore">>, <<"VERSION", ".", "md">>, <<"pubspec", ".", "yaml">>,
     <<"pubspec", ".", "lock">>, <<"README", ".", "md">>, <<"LICENSE">>,
     <<"LICENSE", ".", "md">>, <<"package", ".", "json">>, <<"package-lock", ".", "json">> >>

\* [...new Set(list)]: the first occurrence of each entry, in order
RECURSIVE Dedup(_)
Dedup(list) ==
  IF list = <<>> THEN <<>>
  ELSE LET front == Dedup(SubSeq(list, 1, Len(list) - 1))
           last == list[Len(list)]
       IN IF \E i \in 1..Len(front) : front[i] = last THEN front ELSE Append(front, last)

\* ignoreFiles = [...new Set([...defaultIgnoreFiles, ...ignoreFiles])]
ResolveIgnoreFiles(extra) == Dedup(defaultIgnoreFiles \o extra)

\* ignoreFiles.includes(x)
ListIncludes(list, x) == \E i \in 1..Len(list) : list[i] = x

\* changes.changes.filter(change => !ignoreFiles.includes(change.new_path))
RECURSIVE FilterIgnored(_, _)
FilterIgnored(changes, ignore) ==
  IF changes = <<>> THEN <<>>
  ELSE IF ~ListIncludes(ignore, Head(changes).new_path)
    THEN <<Head(changes)>> \o FilterIgnored(Tail(changes), ignore)
    ELSE FilterIgnored(Tail(changes), ignore)

\* changedFiles.filter(file => !excludedExtensions.includes(extension))
RECURSIVE FilterReviewable(_)
FilterReviewable(files) ==
  IF files = <<>> THEN <<>>
  ELSE IF shouldReviewFile(Head(files))
    THEN <<Head(files)>> \o FilterReviewable(Tail(files))
    ELSE FilterReviewable(Tail(files))

\* ------------------------------------------------------------------ state
VARIABLES
  impl,        \* which GitLabService.createDiscussion is deployed: "v11" | "v12"
  variant,     \* which code-review service and slack module are deployed: "js" | "ts"
  mr,          \* what getMergeRequestChanges returns: [diff_refs, changes]
  cdArgs,      \* createDiscussion's arguments [comment, filePath, line]
  cdPc,        \* createDiscussion's position
  cdFileDiff,  \* the change found for filePath (<<>> before the lookup)
  cdFinalLine, \* finalLine
  cdNote,      \* the plain comment about to be posted
  posted,      \* positioned discussion requests sent, in order
  accepted,    \* how many of them the API accepted
  noteCalls,   \* plain-comment requests sent, in order
  notes,       \* plain comments the API accepted, in order
  trigger,     \* "webhook" | "tool" (threshold policy) | "gitlab" | "review" (categorical)
  req,         \* the request: the hook payload, the tool arguments or the body
  pc,          \* the run's position
  failedAt,    \* the position whose call raised ("" while none has)
  filteredChanges, \* reviewCode's filteredChanges / reviewMergeRequest's filesToReview
  handed,      \* the changes handed to the reviewer, in order
  llmCalls,    \* requests sent to the text-generation service
  review,      \* reviewCode's result [score, overallComment, specificComments]
  idx,         \* the loop index (specific comments, files to review)
  fetches,     \* paths whose content was fetched, in order
  fileReview,  \* the review of the file at hand (<<>>: none)
  fileReviews, \* reviewMergeRequest's fileReviews (the TypeScript service collects none)
  overallReview,  \* getOverallReview's text
  recommendation, \* extractRecommendation's result
  approveCalls,   \* approveMergeRequest requests sent
  slack,       \* notifications sent, in order: [kind, ok]
  response,    \* what the handler's caller gets
  ack,         \* the HTTP status answered to the trigger (0: none yet)
  checklistResults, \* evaluateChecklist's results (<<>> before it ran)
  ckFetches,   \* the contents evaluateChecklist fetched, in order: [path, ref]
  runs         \* the runs started on one merge request: [pc, ack, overallReview,
               \* recommendation, approved] for each trigger (<<>>: one run)

envVars == <<impl, mr, variant, runs>>
cdVars == <<cdArgs, cdPc, cdFileDiff, cdFinalLine, cdNote>>
outVars == <<posted, accepted, noteCalls, notes>>
plVars == <<trigger, req, pc, failedAt, filteredChanges, handed, llmCalls, review, idx,
            fetches, fileReview, fileReviews, overallReview, recommendation, approveCalls,
            slack,
            response, ack, checklistResults, ckFetches>>
vars == <<envVars, cdVars, outVars, plVars>>

\* firstValidLine = null
Null == 0

\* ------------------------------------------------- createDiscussion (v12)
\* a variant that takes the first line that starts with "+" for the first
\* valid line
RECURSIVE Walk_FirstAddition(_, _, _, _, _)
Walk_FirstAddition(diffLines, i, line, currentNewLine, firstValidLine) ==
  IF i > Len(diffLines) THEN [found |-> FALSE, firstValidLine |-> firstValidLine]
  ELSE IF StartsWith(diffLines[i], "+") \/ ~StartsWith(diffLines[i], "-")
    THEN LET cur == currentNewLine + 1
             first == IF firstValidLine = Null /\ StartsWith(diffLines[i], "+")
                        THEN cur ELSE firstValidLine
         IN IF cur = line
              THEN [found |-> TRUE, firstValidLine |-> first]
              ELSE Walk_FirstAddition(diffLines, i + 1, line, cur, first)
    ELSE Walk_FirstAddition(diffLines, i + 1, line, currentNewLine, firstValidLine)

\* the walk over diffLines: [found, firstValidLine]
RECURSIVE Walk(_, _, _, _, _)
Walk(diffLines, i, line, currentNewLine, firstValidLine) ==
  IF i > Len(diffLines) THEN [found |-> FALSE, firstValidLine |-> firstValidLine]
  ELSE IF StartsWith(diffLines[i], "+") \/ ~StartsWith(diffLines[i], "-")
    THEN LET cur == currentNewLine + 1
             first == IF firstValidLine = Null THEN cur ELSE firstValidLine
         IN IF cur = line
              THEN [found |-> TRUE, firstValidLine |-> first]
              ELSE Walk(diffLines, i + 1, line, cur, first)
    ELSE Walk(diffLines, i + 1, line, currentNewLine, firstValidLine)

ResolveLine(diff, line) == Walk(Split(diff, NL), 1, line, 0, Null)

\* changes.changes.find(c => c.new_path === filePath || c.old_path === filePath)
MatchesPath(change, filePath) ==
  change.new_path = filePath \/ change.old_path = filePath

FindFileDiff(changes, filePath) ==
  IF \E i \in 1..Len(changes) : MatchesPath(changes[i], filePath)
    THEN <<changes[CHOOSE i \in 1..Len(changes) :
              /\ MatchesPath(changes[i], filePath)
              /\ \A j \in 1..(i - 1) : ~MatchesPath(changes[j], filePath)]>>
    ELSE <<>>

\* the body of a plain comment: `${comment} (Note: ...)`
NoteBody(comment, kind, filePath, line) ==
  [text |-> comment, note |-> kind, file |-> filePath, line |-> line]

\* the notes that name no file and no line
NoFile == <<>>
NoLine == -1

\* if (!comment) return
CreateDiscussionCall ==
  /\ cdPc = "call"
  /\ cdPc' = IF cdArgs.comment = "" THEN "returned" ELSE "fetch"
  /\ UNCHANGED <<envVars, plVars, cdArgs, cdFileDiff, cdFinalLine, cdNote, outVars>>

\* v12: the fetch, the diff_refs check, the lookup and the line validation
CreateDiscussionResolve ==
  /\ cdPc = "fetch" /\ impl = "v12"
  /\ \E ok \in BOOLEAN :
       IF ~ok
         THEN cdPc' = "catch" /\ UNCHANGED <<cdFileDiff, cdFinalLine, cdNote>>
       ELSE IF ~mr.diff_refs
         THEN /\ cdPc' = "note"
              /\ cdNote' = NoteBody(cdArgs.comment, "missing diff context", NoFile, NoLine)
              /\ UNCHANGED <<cdFileDiff, cdFinalLine>>
       ELSE LET fd == FindFileDiff(mr.changes, cdArgs.filePath) IN
         IF fd = <<>>
           THEN /\ cdPc' = "note"
                /\ cdNote' = NoteBody(cdArgs.comment, "not found in diff", cdArgs.filePath, NoLine)
                /\ UNCHANGED <<cdFileDiff, cdFinalLine>>
         ELSE LET r == ResolveLine(fd[1].diff, cdArgs.line) IN
           /\ cdFileDiff' = fd
           /\ IF ~r.found /\ r.firstValidLine = Null
                THEN /\ cdPc' = "note"
                     /\ cdNote' = NoteBody(cdArgs.comment, "no valid lines", cdArgs.filePath, NoLine)
                     /\ UNCHANGED cdFinalLine
                ELSE /\ cdPc' = "post"
                     /\ cdFinalLine' = IF r.found THEN cdArgs.line ELSE r.firstValidLine
                     /\ UNCHANGED cdNote
  /\ UNCHANGED <<envVars, plVars, cdArgs, outVars>>

\* v12: an early plain comment, awaited inside the try block
CreateDiscussionNote ==
  /\ cdPc = "note" /\ impl = "v12"
  /\ noteCalls' = Append(noteCalls, cdNote)
  /\ \E ok \in BOOLEAN :
       IF ok THEN notes' = Append(notes, cdNote) /\ cdPc' = "returned"
             ELSE notes' = notes /\ cdPc' = "catch"
  /\ UNCHANGED <<envVars, plVars, cdArgs, cdFileDiff, cdFinalLine, cdNote, posted, accepted>>

\* the position of the discussion request
Position(newPath, oldPath, newLine, comment) ==
  [body |-> comment, new_path |-> newPath, old_path |-> oldPath, new_line |-> newLine]

\* v12: axios.post(.../discussions)
CreateDiscussionPost ==
  /\ cdPc = "post" /\ impl = "v12"
  /\ posted' = Append(posted,
        Position(cdFileDiff[1].new_path,
                 IF cdFileDiff[1].old_path = <<>> THEN cdFileDiff[1].new_path
                                                  ELSE cdFileDiff[1].old_path,
                 cdFinalLine, cdArgs.comment))
  /\ \E ok \in BOOLEAN :
       IF ok THEN accepted' = accepted + 1 /\ cdPc' = "returned"
             ELSE accepted' = accepted /\ cdPc' = "catch"
  /\ UNCHANGED <<envVars, plVars, cdArgs, cdFileDiff, cdFinalLine, cdNote, noteCalls, notes>>

\* v12: the catch block's plain comment; its failure leaves createDiscussion
CreateDiscussionCatch ==
  /\ cdPc = "catch" /\ impl = "v12"
  /\ LET body == NoteBody(cdArgs.comment, "failed to create discussion thread",
                          cdArgs.filePath, cdArgs.line) IN
     /\ noteCalls' = Append(noteCalls, body)
     /\ \E ok \in BOOLEAN :
          IF ok THEN notes' = Append(notes, body) /\ cdPc' = "returned"
                ELSE notes' = notes /\ cdPc' = "raised"
  /\ UNCHANGED <<envVars, plVars, cdArgs, cdFileDiff, cdFinalLine, cdNote, posted, accepted>>

\* ------------------------------------------------- createDiscussion (v11)
\* v11: the fetch, the lookup and the "+" check; every error is rethrown
CreateDiscussionResolve11 ==
  /\ cdPc = "fetch" /\ impl = "v11"
  /\ \E ok \in BOOLEAN :
       IF ~ok
         THEN cdPc' = "raised" /\ UNCHANGED <<cdFileDiff, cdFinalLine, cdNote>>
       ELSE LET fd == FindFileDiff(mr.changes, cdArgs.filePath) IN
         IF fd = <<>>
           THEN cdPc' = "returned" /\ UNCHANGED <<cdFileDiff, cdFinalLine, cdNote>>
         ELSE IF ~Includes(fd[1].diff, "+")
           THEN /\ cdPc' = "note"
                /\ cdNote' = NoteBody(cdArgs.comment, "no new lines found",
                                      cdArgs.filePath, cdArgs.line)
                /\ cdFileDiff' = fd
                /\ UNCHANGED cdFinalLine
         ELSE IF ~mr.diff_refs
           \* diffRefs.base_sha of undefined: a TypeError, rethrown
           THEN cdPc' = "raised" /\ cdFileDiff' = fd /\ UNCHANGED <<cdFinalLine, cdNote>>
         ELSE /\ cdPc' = "post"
              /\ cdFileDiff' = fd
              /\ cdFinalLine' = cdArgs.line
              /\ UNCHANGED cdNote
  /\ UNCHANGED <<envVars, plVars, cdArgs, outVars>>

\* v11: the plain comment when the diff has no "+"
CreateDiscussionNote11 ==
  /\ cdPc = "note" /\ impl = "v11"
  /\ noteCalls' = Append(noteCalls, cdNote)
  /\ \E ok \in BOOLEAN :
       IF ok THEN notes' = Append(notes, cdNote) /\ cdPc' = "returned"
             ELSE notes' = notes /\ cdPc' = "raised"
  /\ UNCHANGED <<envVars, plVars, cdArgs, cdFileDiff, cdFinalLine, cdNote, posted, accepted>>

\* v11: axios.post(.../discussions) in the inner try
CreateDiscussionPost11 ==
  /\ cdPc = "post" /\ impl = "v11"
  /\ posted' = Append(posted, Position(cdArgs.filePath, <<>>, cdFinalLine, cdArgs.comment))
  /\ \E ok \in BOOLEAN :
       IF ok THEN accepted' = accepted + 1 /\ cdPc' = "returned"
             ELSE accepted' = accepted /\ cdPc' = "catch"
  /\ UNCHANGED <<envVars, plVars, cdArgs, cdFileDiff, cdFinalLine, cdNote, noteCalls, notes>>

\* v11: the inner catch's plain comment; its failure reaches the outer catch
CreateDiscussionCatch11 ==
  /\ cdPc = "catch" /\ impl = "v11"
  /\ LET body == NoteBody(cdArgs.comment, "failed to create discussion thread",
                          cdArgs.filePath, cdArgs.line) IN
     /\ noteCalls' = Append(noteCalls, body)
     /\ \E ok \in BOOLEAN :
          IF ok THEN notes' = Append(notes, body) /\ cdPc' = "returned"
                ELSE notes' = notes /\ cdPc' = "raised"
  /\ UNCHANGED <<envVars, plVars, cdArgs, cdFileDiff, cdFinalLine, cdNote, posted, accepted>>

CreateDiscussionStep ==
  \/ CreateDiscussionCall
  \/ CreateDiscussionResolve
  \/ CreateDiscussionNote
  \/ CreateDiscussionPost
  \/ CreateDiscussionCatch
  \/ CreateDiscussionResolve11
  \/ CreateDiscussionNote11
  \/ CreateDiscussionPost11
  \/ CreateDiscussionCatch11

\* no run: createDiscussion is called on its own
NoReview == [score |-> 0, overallComment |-> "", specificComments |-> <<>>]

PipelineIdle ==
  /\ trigger = "none"
  /\ req = <<>>
  /\ pc = "idle"
  /\ failedAt = ""
  /\ filteredChanges = <<>>
  /\ handed = <<>>
  /\ llmCalls = 0
  /\ review = NoReview
  /\ idx = 0
  /\ fetches = <<>>
  /\ fileReview = <<>>
  /\ fileReviews = <<>>
  /\ overallReview = <<>>
  /\ recommendation = <<>>
  /\ approveCalls = 0
  /\ slack = <<>>
  /\ response = "none"
  /\ ack = 0
  /\ checklistResults = <<>>
  /\ ckFetches = <<>>

\* ------------------------------------- createDiscussion on its own (SpecDisc)
\* one change with P_app as new path, under either old path, or no change
DiscChanges ==
  {<<>>} \cup { <<[new_path |-> P_app, old_path |-> op, diff |-> d]>> :
                  op \in {P_app, P_old}, d \in DiffTexts }

InitDisc ==
  /\ runs = <<>>
  /\ impl \in {"v11", "v12"}
  /\ variant = "ts"
  /\ mr \in [diff_refs : BOOLEAN, changes : DiscChanges, description : {<<>>}]
  /\ cdArgs \in [comment : {"", "note"}, filePath : {P_app, P_old, P_zz}, line : 0..MaxLine]
  /\ cdPc = "call"
  /\ cdFileDiff = <<>>
  /\ cdFinalLine = Null
  /\ cdNote = <<>>
  /\ posted = <<>>
  /\ accepted = 0
  /\ noteCalls = <<>>
  /\ notes = <<>>
  /\ PipelineIdle

NextDisc == CreateDiscussionStep

SpecDisc == InitDisc /\ [][NextDisc]_vars

\* ------------------------------------------------------ pipeline inputs
\* a changed file; size is the length of its JSON text
FileChange(path, diffLines, deleted, size) ==
  [new_path |-> path, old_path |-> path, diff |-> Join(diffLines, NL),
   deleted_file |-> deleted, new_file |-> FALSE, size |-> size]

F_app == FileChange(P_app, <<HdrLine, AddLine, AddLine>>, FALSE, 100)
F_readme == FileChange(P_readme, <<HdrLine, AddLine>>, FALSE, 100)
F_docsReadme == FileChange(P_docsReadme, <<HdrLine, CtxLine, AddLine>>, FALSE, 100)
F_logo == FileChange(P_logo, <<EmptyLine>>, FALSE, 100)
F_gone == FileChange(P_gone, <<HdrLine, DelLine>>, TRUE, 100)
\* alone in a change-set, F_big serializes to 30000 characters, F_huge to 30001
F_big == FileChange(P_big, <<HdrLine, AddLine>>, FALSE, 29998)
F_huge == FileChange(P_big, <<HdrLine, AddLine>>, FALSE, 29999)

FilePool == {F_app, F_readme, F_docsReadme, F_logo}

\* n changed files that no filter removes
Bulk(n) == [i \in 1..n |-> F_app]

MAX_CHANGES_THRESHOLD == 10
MaxContentLength == 30000

\* the version manifest, modified or newly added, at the root or in a directory
P_version == <<"version", ".", "json">>
P_cfgVersion == <<"config", "/", "version", ".", "json">>
F_version == FileChange(P_version, <<HdrLine, DelLine, AddLine>>, FALSE, 100)
F_versionNew == [FileChange(P_cfgVersion, <<HdrLine, AddLine>>, FALSE, 100) EXCEPT !.new_file = TRUE]

\* the change-sets with a version manifest
VersionChangeSets == { <<F_version>>, <<F_versionNew>>, <<F_app, F_version>> }

\* up to MaxFiles distinct files of the pool, and change-sets with a deleted file
ChangeSets ==
  { cs \in SeqsOf(FilePool, 0, MaxFiles) :
      \A i, j \in 1..Len(cs) : i # j => cs[i] # cs[j] }
  \cup { <<F_gone, F_app>>, <<F_gone>> }

\* the change-sets at the two limits of reviewCode and reviewChanges
LimitChangeSets ==
  { <<F_big>>, <<F_huge>>, Bulk(MAX_CHANGES_THRESHOLD), Bulk(MAX_CHANGES_THRESHOLD + 1) }

\* JSON.stringify(changes).length: the brackets, the files, the commas
RECURSIVE SumSizes(_)
SumSizes(changes) ==
  IF changes = <<>> THEN 0 ELSE Head(changes).size + SumSizes(Tail(changes))

ContentLength(changes) ==
  IF changes = <<>> THEN 2 ELSE 2 + SumSizes(changes) + (Len(changes) - 1)

\* specific comments the text-generation service can return
CommentPool ==
  { [filePath |-> P_app, line |-> 2, comment |-> "note"],
    [filePath |-> P_logo, line |-> 1, comment |-> "other note"] }

\* scores in tenths: 79 is 7.9, 80 is 8
LLMScores == {79, 80}
ApproveThreshold == 80

LLMResults ==
  [score : LLMScores, overallComment : {"summary"},
   specificComments : SeqsOf(CommentPool, 0, MaxComments)]

TooManyFiles ==
  [score |-> 0, overallComment |-> "too many changed files", specificComments |-> <<>>]
TooLarge ==
  [score |-> 0, overallComment |-> "changeset too large", specificComments |-> <<>>]

WebhookRequests ==
  [event : {"Merge Request Hook", "Push Hook"}, attrs : BOOLEAN, project : BOOLEAN,
   target_branch : {"internal", "main"}, state : {"opened", "merged"},
   ignore_files : {<<>>}]

ToolRequests ==
  [event : {"review_code"}, attrs : {TRUE}, project : {TRUE},
   target_branch : {"internal"}, state : {"opened"},
   ignore_files : {<<>>, <<P_readme, P_app, P_readme>>}]

\* ------------------------------------------- threshold pipeline (webhook, tool)
catVars == <<fetches, fileReview, fileReviews, overallReview, recommendation, slack,
             checklistResults,
             ckFetches>>

\* an error reaches the handler: the webhook answers 200, the tool rethrows
Raise(at) ==
  /\ pc' = "done"
  /\ failedAt' = at
  /\ response' = IF trigger = "webhook" THEN "200 error" ELSE "thrown"
  /\ ack' = IF trigger = "webhook" THEN 200 ELSE ack

\* router.post("/webhook"): the event and target-branch gate
WebhookReceive ==
  /\ pc = "recv" /\ trigger = "webhook"
  /\ IF req.event # "Merge Request Hook"
       THEN /\ pc' = "done" /\ response' = "200 unsupported event type" /\ ack' = 200
            /\ UNCHANGED failedAt
     ELSE IF req.attrs /\ req.target_branch = "internal" /\ req.state = "opened"
       THEN IF req.project
              THEN pc' = "reviewCode" /\ UNCHANGED <<failedAt, response, ack>>
              ELSE Raise("recv")
     ELSE pc' = "done" /\ response' = "200 no action taken" /\ ack' = 200 /\ UNCHANGED failedAt
  /\ UNCHANGED <<envVars, cdVars, outVars, trigger, req, filteredChanges, handed, llmCalls,
                 review, idx, approveCalls, catVars>>

\* callToolController, case "review_code": the arguments are parsed
ToolReceive ==
  /\ pc = "recv" /\ trigger = "tool"
  /\ pc' = "reviewCode"
  /\ UNCHANGED <<envVars, cdVars, outVars, trigger, req, failedAt, filteredChanges, handed,
                 llmCalls, review, idx, approveCalls, catVars, response, ack>>

\* a variant that gives up at the limit itself
TooManyChanges_AtLimit(changes) == Len(changes) >= MAX_CHANGES_THRESHOLD

\* if (filteredChanges.length > MAX_CHANGES_THRESHOLD)
TooManyChanges(changes) == Len(changes) > MAX_CHANGES_THRESHOLD

\* a variant whose ceiling is reached at the limit itself
ExceedsCeiling_AtLimit(changes) == ContentLength(changes) >= MaxContentLength

\* if (content.length > 30000)
ExceedsCeiling(changes) == ContentLength(changes) > MaxContentLength

\* CodeReviewService.reviewCode up to the text-generation request, with the
\* size ceiling of ChatGptService.reviewChanges
ReviewCode ==
  /\ pc = "reviewCode"
  /\ \E ok \in BOOLEAN :
       IF ~ok
         THEN Raise("reviewCode") /\ UNCHANGED <<filteredChanges, handed, review>>
       ELSE LET ignoreFiles == ResolveIgnoreFiles(req.ignore_files)
                filtered == FilterIgnored(mr.changes, ignoreFiles)
            IN /\ filteredChanges' = filtered
               /\ UNCHANGED <<failedAt, response, ack>>
               /\ IF TooManyChanges(filtered)
                    THEN review' = TooManyFiles /\ pc' = "summary" /\ UNCHANGED handed
                  ELSE /\ handed' = filtered
                       /\ IF ExceedsCeiling(filtered)
                            THEN review' = TooLarge /\ pc' = "summary"
                            ELSE pc' = "llm" /\ UNCHANGED review
  /\ UNCHANGED <<envVars, cdVars, outVars, trigger, req, llmCalls, idx, approveCalls, catVars>>

\* ChatGptService.reviewChanges: the request and the parse of its answer
ReviewChanges ==
  /\ pc = "llm"
  /\ llmCalls' = llmCalls + 1
  /\ \E answer \in {"request failed", "not parseable", "parsed"} :
       IF answer # "parsed"
         THEN Raise(IF answer = "not parseable" THEN "parse" ELSE "llm") /\ UNCHANGED review
         ELSE /\ \E r \in LLMResults : review' = r
              /\ pc' = "summary"
              /\ UNCHANGED <<failedAt, response, ack>>
  /\ UNCHANGED <<envVars, cdVars, outVars, trigger, req, filteredChanges, handed, idx,
                 approveCalls, catVars>>

\* a plain comment of the run itself
PlainBody(text) == NoteBody(text, "", NoFile, NoLine)

\* if (review.overallComment) await addMergeRequestComment(...)
PostOverallComment ==
  /\ pc = "summary"
  /\ IF review.overallComment = ""
       THEN /\ pc' = "discuss" /\ idx' = 1
            /\ UNCHANGED <<noteCalls, notes, failedAt, response, ack>>
       ELSE /\ noteCalls' = Append(noteCalls, PlainBody(review.overallComment))
            /\ \E ok \in BOOLEAN :
                 IF ok THEN /\ notes' = Append(notes, PlainBody(review.overallComment))
                            /\ pc' = "discuss" /\ idx' = 1
                            /\ UNCHANGED <<failedAt, response, ack>>
                       ELSE Raise("summary") /\ UNCHANGED <<notes, idx>>
  /\ UNCHANGED <<envVars, cdVars, posted, accepted, trigger, req, filteredChanges, handed,
                 llmCalls, review, approveCalls, catVars>>

\* for (const comment of review.specificComments) await createDiscussion(...)
CallCreateDiscussion ==
  /\ pc = "discuss" /\ idx <= Len(review.specificComments)
  /\ cdArgs' = review.specificComments[idx]
  /\ cdPc' = "call"
  /\ cdFileDiff' = <<>> /\ cdFinalLine' = Null /\ cdNote' = <<>>
  /\ pc' = "inDiscussion"
  /\ UNCHANGED <<envVars, outVars, trigger, req, failedAt, filteredChanges, handed, llmCalls,
                 review, idx, approveCalls, catVars, response, ack>>

\* createDiscussion returns to the loop, or raises to the handler
ReturnFromDiscussion ==
  /\ pc = "inDiscussion" /\ cdPc \in {"returned", "raised"}
  /\ cdPc' = "idle"
  /\ IF cdPc = "returned"
       THEN pc' = "discuss" /\ idx' = idx + 1 /\ UNCHANGED <<failedAt, response, ack>>
       ELSE Raise("discuss") /\ UNCHANGED idx
  /\ UNCHANGED <<envVars, cdArgs, cdFileDiff, cdFinalLine, cdNote, outVars, trigger, req,
                 filteredChanges, handed, llmCalls, review, approveCalls, catVars>>

\* a variant with a strict comparison
Approved_Strict(score) == score > ApproveThreshold

\* const approved = review.score >= 8
Approved(score) == score >= ApproveThreshold

\* a variant that does not wait for the end of the loop
Approve_Early ==
  /\ pc = "discuss"
  /\ approveCalls' = approveCalls + 1
  /\ pc' = "done" /\ response' = "approved"
  /\ UNCHANGED <<envVars, cdVars, outVars, trigger, req, filteredChanges, handed, llmCalls,
                 review, idx, catVars, failedAt, ack>>

\* the approval and the answer
Approve ==
  /\ pc = "discuss" /\ idx > Len(review.specificComments)
  /\ LET approved == Approved(review.score)
         answer == IF trigger = "webhook" THEN "200 review triggered"
                   ELSE IF approved THEN "approved" ELSE "needs_work"
     IN IF approved
          THEN /\ approveCalls' = approveCalls + 1
               /\ \E ok \in BOOLEAN :
                    IF ok THEN /\ pc' = "done" /\ response' = answer
                               /\ ack' = IF trigger = "webhook" THEN 200 ELSE ack
                               /\ UNCHANGED failedAt
                          ELSE Raise("approve")
          ELSE /\ pc' = "done" /\ response' = answer
               /\ ack' = IF trigger = "webhook" THEN 200 ELSE ack
               /\ UNCHANGED <<approveCalls, failedAt>>
  /\ UNCHANGED <<envVars, cdVars, outVars, trigger, req, filteredChanges, handed, llmCalls,
                 review, idx, catVars>>

ThresholdStep ==
  \/ WebhookReceive
  \/ ToolReceive
  \/ ReviewCode
  \/ ReviewChanges
  \/ PostOverallComment
  \/ CallCreateDiscussion
  \/ ReturnFromDiscussion
  \/ Approve

InitThreshold ==
  /\ impl \in {"v11", "v12"}
  /\ variant = "ts"
  /\ mr \in [diff_refs : {TRUE}, changes : ChangeSets \cup LimitChangeSets,
             description : {<<>>}]
  /\ trigger \in {"webhook", "tool"}
  /\ req \in IF trigger = "webhook" THEN WebhookRequests ELSE ToolRequests
  /\ pc = "recv"

\* --------------------------------- categorical pipeline (reviewMergeRequest)
thrVars == <<review>>

\* a variant in which the run goes on past a failed call
RaiseInReview_GoOn(at) == pc' = "checklist" /\ failedAt' = at

\* an error reaches reviewMergeRequest's catch block
RaiseInReview(at) == pc' = "catch" /\ failedAt' = at

\* getFileReview's answers: the review text, or the stub of its catch block
\* (a text is the sequence of the words and phrases it is made of)
R_Review == <<"review text">>
R_Stub == <<"Error generating review. Please check the logs.">>

\* a field the request body does not carry
Undefined == -1

\* a variant that takes only an absent field for a missing one
Falsy_AbsentOnly(x) == x = Undefined

\* !x for an identifier of the body
Falsy(x) == x = Undefined \/ x = 0

\* POST /gitlab: the token header and the hook payload
GitlabRequests ==
  [token : BOOLEAN, object_kind : {"merge_request", "push"},
   action : {"open", "update", "close"}, state : {"opened", "merged"},
   work_in_progress : BOOLEAN]

\* POST /review: the body
ReviewRequests == [projectId : {Undefined, 0, 7}, mergeRequestIid : {Undefined, 0, 7}]

\* handleMergeRequestWebhook's gate: kind, action and state in the TypeScript
\* service; kind, action and work_in_progress in the JavaScript one
ShouldProcess(webhookData) ==
  /\ webhookData.object_kind = "merge_request"
  /\ webhookData.action \in {"open", "update"}
  /\ IF variant = "ts" THEN webhookData.state = "opened"
     ELSE ~webhookData.work_in_progress

\* router.post('/gitlab'): the token check, the detached task up to its first
\* await (the gate of handleMergeRequestWebhook), the 202 answer
RouteGitlab ==
  /\ pc = "route" /\ trigger = "gitlab"
  /\ IF ~req.token
       THEN ack' = 401 /\ pc' = "done" /\ UNCHANGED response
     ELSE /\ ack' = 202
          /\ IF ShouldProcess(req)
               THEN pc' = "start" /\ UNCHANGED response
               ELSE pc' = "done" /\ response' = "no review"
  /\ UNCHANGED <<envVars, cdVars, outVars, trigger, req, failedAt, filteredChanges, handed,
                 llmCalls, thrVars, idx, approveCalls, catVars>>

\* router.post('/review'): the required fields, the detached task, the 202 answer
RouteReview ==
  /\ pc = "route" /\ trigger = "review"
  /\ IF Falsy(req.projectId) \/ Falsy(req.mergeRequestIid)
       THEN ack' = 400 /\ pc' = "done"
       ELSE ack' = 202 /\ pc' = "start"
  /\ UNCHANGED <<envVars, cdVars, outVars, trigger, req, failedAt, filteredChanges, handed,
                 llmCalls, thrVars, idx, approveCalls, catVars, response>>

\* gitlabService.getMergeRequestDetails
ReviewStart ==
  /\ pc = "start"
  /\ \E ok \in BOOLEAN :
       IF ok THEN pc' = "changedFiles" /\ UNCHANGED failedAt ELSE RaiseInReview("start")
  /\ UNCHANGED <<envVars, cdVars, outVars, trigger, req, filteredChanges, handed, llmCalls,
                 thrVars, idx, approveCalls, catVars, response, ack>>

\* gitlabService.getChangedFiles and the extension filter
GetChangedFiles ==
  /\ pc = "changedFiles"
  /\ \E ok \in BOOLEAN :
       IF ok THEN /\ filteredChanges' = FilterReviewable(mr.changes)
                  /\ idx' = 1
                  /\ pc' = "files"
                  /\ UNCHANGED failedAt
             ELSE RaiseInReview("changedFiles") /\ UNCHANGED <<filteredChanges, idx>>
  /\ UNCHANGED <<envVars, cdVars, outVars, trigger, req, handed, llmCalls, thrVars,
                 approveCalls, catVars, response, ack>>

\* a variant that does not skip a deleted file
ReviewFile_NoSkip ==
  /\ pc = "files"
  /\ IF idx > Len(filteredChanges)
       THEN pc' = "checklist" /\ UNCHANGED <<idx, fetches, failedAt>>
     ELSE \E ok \in BOOLEAN :
       IF ok THEN /\ fetches' = Append(fetches, filteredChanges[idx].new_path)
                  /\ pc' = "fileReview"
                  /\ UNCHANGED <<idx, failedAt>>
             ELSE RaiseInReview("files") /\ UNCHANGED <<idx, fetches>>
  /\ UNCHANGED <<envVars, cdVars, outVars, trigger, req, filteredChanges, handed, llmCalls,
                 thrVars, approveCalls, fileReview, fileReviews, overallReview,
                 recommendation, slack, checklistResults, ckFetches,
                 response, ack>>

\* the loop over filesToReview: a deleted file is skipped, the content of
\* another is fetched
ReviewFile ==
  /\ pc = "files"
  /\ IF idx > Len(filteredChanges)
       THEN pc' = "checklist" /\ UNCHANGED <<idx, fetches, failedAt>>
     ELSE IF filteredChanges[idx].deleted_file
       THEN idx' = idx + 1 /\ UNCHANGED <<pc, fetches, failedAt>>
     ELSE \E ok \in BOOLEAN :
       IF ok THEN /\ fetches' = Append(fetches, filteredChanges[idx].new_path)
                  /\ pc' = "fileReview"
                  /\ UNCHANGED <<idx, failedAt>>
             ELSE RaiseInReview("files") /\ UNCHANGED <<idx, fetches>>
  /\ UNCHANGED <<envVars, cdVars, outVars, trigger, req, filteredChanges, handed, llmCalls,
                 thrVars, approveCalls, fileReview, fileReviews, overallReview,
                 recommendation, slack, checklistResults, ckFetches,
                 response, ack>>

\* a variant that puts the finding at the head of the list
getFileReview_Prepend ==
  /\ pc = "fileReview"
  /\ handed' = Append(handed, filteredChanges[idx])
  /\ llmCalls' = llmCalls + 1
  /\ \E ok \in BOOLEAN :
       /\ fileReview' = [path |-> filteredChanges[idx].new_path,
                         review |-> IF ok THEN R_Review ELSE R_Stub]
       /\ fileReviews' = IF variant = "js" THEN <<fileReview'>> \o fileReviews
                         ELSE fileReviews
  /\ pc' = "filePost"
  /\ UNCHANGED <<envVars, cdVars, outVars, trigger, req, failedAt, filteredChanges, thrVars,
                 idx, approveCalls, fetches, overallReview, recommendation, slack,
                 checklistResults, ckFetches, response, ack>>

\* a variant that sends a failed request once more
getFileReview_Retry ==
  /\ pc = "fileReview"
  /\ \E ok \in BOOLEAN :
       /\ handed' = IF ok THEN Append(handed, filteredChanges[idx])
                     ELSE handed \o <<filteredChanges[idx], filteredChanges[idx]>>
       /\ llmCalls' = IF ok THEN llmCalls + 1 ELSE llmCalls + 2
       /\ fileReview' = [path |-> filteredChanges[idx].new_path,
                         review |-> IF ok THEN R_Review ELSE R_Stub]
       /\ fileReviews' = IF variant = "js" THEN Append(fileReviews, fileReview')
                         ELSE fileReviews
  /\ pc' = "filePost"
  /\ UNCHANGED <<envVars, cdVars, outVars, trigger, req, failedAt, filteredChanges, thrVars,
                 idx, approveCalls, fetches, overallReview, recommendation, slack,
                 checklistResults, ckFetches, response, ack>>

\* claudeService.getFileReview: one request, its failure answered by the stub
getFileReview ==
  /\ pc = "fileReview"
  /\ handed' = Append(handed, filteredChanges[idx])
  /\ llmCalls' = llmCalls + 1
  /\ \E ok \in BOOLEAN :
       /\ fileReview' = [path |-> filteredChanges[idx].new_path,
                         review |-> IF ok THEN R_Review ELSE R_Stub]
       /\ fileReviews' = IF variant = "js" THEN Append(fileReviews, fileReview')
                         ELSE fileReviews
  /\ pc' = "filePost"
  /\ UNCHANGED <<envVars, cdVars, outVars, trigger, req, failedAt, filteredChanges, thrVars,
                 idx, approveCalls, fetches, overallReview, recommendation, slack,
                 checklistResults, ckFetches, response, ack>>

\* the comment with the file's review
PostFileComment ==
  /\ pc = "filePost"
  /\ LET body == PlainBody(fileReview) IN
     /\ noteCalls' = Append(noteCalls, body)
     /\ \E ok \in BOOLEAN :
          IF ok THEN /\ notes' = Append(notes, body)
                     /\ idx' = idx + 1
                     /\ pc' = "files"
                     /\ UNCHANGED failedAt
                ELSE RaiseInReview("filePost") /\ UNCHANGED <<notes, idx>>
  /\ UNCHANGED <<envVars, cdVars, posted, accepted, trigger, req, filteredChanges, handed,
                 llmCalls, thrVars, approveCalls, catVars, response, ack>>

\* ---- the version-bump rule (checkVersionUpdate)
EndsWith(s, suffix) ==
  Len(s) >= Len(suffix) /\ SubSeq(s, Len(s) - Len(suffix) + 1, Len(s)) = suffix

\* file.new_path === 'version.json' || file.new_path.endsWith('/version.json')
IsVersionFile(file) ==
  file.new_path = P_version \/ EndsWith(file.new_path, <<"/">> \o P_version)

\* changedFiles.find: the first version manifest (<<>>: none)
FindVersionFile(changedFiles) ==
  IF \E i \in 1..Len(changedFiles) : IsVersionFile(changedFiles[i])
    THEN LET i == CHOOSE k \in 1..Len(changedFiles) :
                    /\ IsVersionFile(changedFiles[k])
                    /\ \A m \in 1..(k - 1) : ~IsVersionFile(changedFiles[m])
         IN <<changedFiles[i]>>
    ELSE <<>>

\* what a content fetch gives: a failure, a text JSON.parse rejects, or a
\* manifest with its version field
FetchFailed == [fetched |-> FALSE, parses |-> FALSE, version |-> ""]
NotJson == [fetched |-> TRUE, parses |-> FALSE, version |-> ""]
Manifest(v) == [fetched |-> TRUE, parses |-> TRUE, version |-> v]
FetchResults == {FetchFailed, NotJson, Manifest("1.0.0"), Manifest("1.0.1")}

M_NotUpdated == <<"version.json was not updated in this merge request">>
M_Added == <<"version.json was added in this merge request">>
M_NotIncreased == <<"version.json was modified but the version number was not increased">>
M_ParseError == <<"Error parsing version.json: ">>
M_CheckError == <<"Error checking version update: ">>
M_Updated_Swapped(old, new) == <<"Version was updated from ", new, " to ", old>>
M_Updated(old, new) == <<"Version was updated from ", old, " to ", new>>

\* the refs getFileContent is called with: the source branch for the new
\* content, the file's old path for the old content
SourceBranch == <<"feature">>
VersionFetches(changedFiles, newContent) ==
  LET found == FindVersionFile(changedFiles) IN
  IF found = <<>> THEN <<>>
  ELSE LET new == [path |-> found[1].new_path, ref |-> SourceBranch]
           old == [path |-> found[1].old_path, ref |-> found[1].old_path]
       IN IF ~newContent.fetched \/ found[1].new_file THEN <<new>> ELSE <<new, old>>

checkVersionUpdate(changedFiles, newContent, oldContent) ==
  LET found == FindVersionFile(changedFiles) IN
  IF found = <<>> THEN [updated |-> FALSE, message |-> M_NotUpdated]
  ELSE IF ~newContent.fetched THEN [updated |-> FALSE, message |-> M_CheckError]
  ELSE IF found[1].new_file THEN [updated |-> TRUE, message |-> M_Added]
  ELSE IF ~oldContent.fetched THEN [updated |-> FALSE, message |-> M_CheckError]
  ELSE IF ~newContent.parses \/ ~oldContent.parses
    THEN [updated |-> FALSE, message |-> M_ParseError]
  ELSE IF newContent.version = oldContent.version
    THEN [updated |-> FALSE, message |-> M_NotIncreased]
  ELSE [updated |-> TRUE, message |-> M_Updated(oldContent.version, newContent.version)]

\* ---- the other rules of evaluateChecklist
\* mrDetails.description: <<>> when the field is absent, <<text>> otherwise; the
\* texts are the empty one, a brief one that names Trello, one of 20
\* characters and one of 21
Descriptions ==
  {<<>>, <<<<>>>>,
   <<<<"T", "r", "e", "l", "l", "o", " ", "c", "a", "r", "d">>>>,
   <<<<"A", "d", "d", "s", " ", "t", "h", "e", " ", "l", "o", "g", "i", "n", " ", "p", "a", "g", "e", ".">>>>,
   <<<<"A", "d", "d", "s", " ", "t", "h", "e", " ", "l", "o", "g", "i", "n", " ", "p", "a", "g", "e", ".", ".">>>>}

\* a variant that reads the description without testing it first
DescriptionAnd_Unguarded(description, test) ==
  IF description = <<>> THEN "TypeError"
  ELSE IF test THEN "true" ELSE "false"

\* mrDetails.description && test: the falsy description itself (undefined or
\* the empty text), else the value of the test on the description's text
DescriptionAnd(description, test) ==
  IF description = <<>> THEN "undefined"
  ELSE IF description[1] = <<>> THEN "''"
  ELSE IF test THEN "true" ELSE "false"

\* review.review.toLowerCase().includes(phrase)
Mentions(finding, phrase) ==
  \E i \in 1..Len(finding.review) : LowerToken(finding.review[i]) = phrase

\* the paths a loop over fileReviews pushes: those of the findings its test
\* holds for (hit[i] for the i-th finding)
Flagged(reviews, hit) ==
  LET Hit(i) == hit[i]
      hits == SelectSeq([i \in 1..Len(reviews) |-> i], Hit)
  IN [k \in 1..Len(hits) |-> reviews[hits[k]].path]

\* a rule on the findings: passed when no path was pushed
ListRule(flagged, pass, fail) ==
  [status |-> IF Len(flagged) = 0 THEN "true" ELSE "false",
   message |-> IF Len(flagged) = 0 THEN <<pass>> ELSE <<fail, flagged>>]

checkProtoFiles(changedFiles) ==
  LET IsProto(file) == EndsWith(file.new_path, <<".", "proto">>)
      IsApi(file) == \E i \in 1..(Len(file.new_path) - 2) :
                       /\ file.new_path[i] = "/"
                       /\ file.new_path[i + 1] \in {"controllers", "routes", "services", "models"}
                       /\ file.new_path[i + 2] = "/"
      protoFiles == SelectSeq(changedFiles, IsProto)
      apiChanges == SelectSeq(changedFiles, IsApi)
  IN IF Len(protoFiles) > 0
       THEN [updated |-> TRUE, message |-> <<"Found ", Len(protoFiles), " updated proto file(s)">>]
     ELSE IF Len(apiChanges) > 0
       THEN [updated |-> FALSE,
             message |-> <<"API changes detected but no proto files were updated. Verify if proto updates are needed.">>]
     ELSE [updated |-> TRUE, message |-> <<"No API changes that would require proto updates">>]

\* the issues checkErrorHandling pushes, review by review
RECURSIVE ErrorHandlingIssues(_)
ErrorHandlingIssues(reviews) ==
  IF reviews = <<>> THEN <<>>
  ELSE LET r == Head(reviews)
           tryCatch == /\ Mentions(r, "try-catch")
                       /\ \/ Mentions(r, "missing")
                          \/ Mentions(r, "should")
                          \/ Mentions(r, "error handling")
           slackNote == Mentions(r, "slack") /\ Mentions(r, "notification")
       IN (IF tryCatch THEN <<<<r.path, "Error handling might be incomplete">>>> ELSE <<>>)
          \o (IF slackNote
                THEN <<<<r.path, "Slack notifications might not be properly implemented for errors">>>>
                ELSE <<>>)
          \o ErrorHandlingIssues(Tail(reviews))

checkErrorHandling(reviews) ==
  LET issues == ErrorHandlingIssues(reviews) IN
  IF Len(issues) > 0
    THEN [proper |-> FALSE, message |-> <<"Error handling issues detected:", issues>>]
    ELSE [proper |-> TRUE, message |-> <<"Error handling appears to be properly implemented">>]

\* claudeService.evaluateChecklist: no request to the text-generation service;
\* the contents the version rule fetched are kept with the result; a TypeError
\* in a rule ends the evaluation
evaluateChecklist ==
  /\ pc = "checklist"
  /\ \E newContent, oldContent \in FetchResults :
       LET low == IF mr.description = <<>> THEN <<>> ELSE ToLowerCase(mr.description[1])
           LongFunction(r) == \/ Mentions(r, "function") /\ Mentions(r, "too long")
                              \/ Mentions(r, "exceeds 50 lines")
           NullCheck(r) == Mentions(r, "null check") /\ Mentions(r, "missing")
           Verbose(r) == \/ Mentions(r, "verbose")
                         \/ Mentions(r, "could be shorter")
                         \/ Mentions(r, "could be simplified")
           Loop(r) == (Mentions(r, "loop") \/ Mentions(r, "for ")) /\ Mentions(r, "lambda")
           EarlyReturn(r) == Mentions(r, "early return")
           PromiseAll(r) == Mentions(r, "promise.all")
           Localization(r) == Mentions(r, "localization") \/ Mentions(r, "translation")
           adequate == DescriptionAnd(mr.description, Len(low) > 20)
           trello == DescriptionAnd(mr.description,
                                    \E i \in 1..(Len(low) - 5) :
                                      SubSeq(low, i, i + 5) = <<"t", "r", "e", "l", "l", "o">>)
           versionCheck == checkVersionUpdate(mr.changes, newContent, oldContent)
           protoCheck == checkProtoFiles(mr.changes)
           errorHandling == checkErrorHandling(fileReviews)
           results ==
             [diffDescription |->
                [status |-> adequate,
                 message |-> IF adequate = "true" THEN <<"Diff description is adequate">>
                             ELSE <<"Diff description is missing or too brief">>],
              trelloLink |->
                [status |-> trello,
                 message |-> IF trello = "true" THEN <<"Trello link is included">>
                             ELSE <<"No Trello link found in the description">>],
              versionUpdate |->
                [status |-> IF versionCheck.updated THEN "true" ELSE "false",
                 message |-> versionCheck.message],
              trelloDescription |->
                [status |-> trello,
                 message |->
                   IF trello = "true"
                     THEN <<"Trello card is linked, description is assumed to be present">>
                     ELSE <<"Cannot verify Trello card description as no link was found">>],
              protoFiles |->
                [status |-> IF protoCheck.updated THEN "true" ELSE "false",
                 message |-> protoCheck.message],
              errorHandling |->
                [status |-> IF errorHandling.proper THEN "true" ELSE "false",
                 message |-> errorHandling.message],
              functionLength |->
                ListRule(Flagged(fileReviews,
                                 [i \in 1..Len(fileReviews) |-> LongFunction(fileReviews[i])]),
                         "All functions appear to be under 50 lines",
                         "Potentially long functions found in: "),
              singlePurpose |->
                [status |-> "true",
                 message |->
                   <<"MR appears to have a single purpose based on the description and changes">>],
              nullChecks |->
                ListRule(Flagged(fileReviews,
                                 [i \in 1..Len(fileReviews) |-> NullCheck(fileReviews[i])]),
                         "Proper null checks appear to be in place",
                         "Potential missing null checks in: "),
              codeConcion |->
                ListRule(Flagged(fileReviews,
                                 [i \in 1..Len(fileReviews) |-> Verbose(fileReviews[i])]),
                         "Code appears to be concise",
                         "Code could be more concise in: "),
              lambdaUsage |->
                ListRule(Flagged(fileReviews,
                                 [i \in 1..Len(fileReviews) |-> Loop(fileReviews[i])]),
                         "Lambda functions appear to be used appropriately",
                         "Potential opportunities for lambda functions in: "),
              earlyReturns |->
                ListRule(Flagged(fileReviews,
                                 [i \in 1..Len(fileReviews) |-> EarlyReturn(fileReviews[i])]),
                         "Early returns appear to be used where appropriate",
                         "Potential opportunities for early returns in: "),
              promiseAll |->
                ListRule(Flagged(fileReviews,
                                 [i \in 1..Len(fileReviews) |-> PromiseAll(fileReviews[i])]),
                         "No Promise.all() usage detected, as per guidelines",
                         "Promise.all() may be used in: "),
              localization |->
                ListRule(Flagged(fileReviews,
                                 [i \in 1..Len(fileReviews) |-> Localization(fileReviews[i])]),
                         "Localization strings appear to be properly separated from code",
                         "Potential localization issues in: ")]
       IN IF adequate = "TypeError" \/ trello = "TypeError"
            THEN RaiseInReview("checklist") /\ UNCHANGED <<checklistResults, ckFetches>>
            ELSE /\ checklistResults' =
                      [versionUpdate |-> versionCheck,
                       newContent |-> IF Len(VersionFetches(mr.changes, newContent)) >= 1
                                        THEN newContent ELSE FetchFailed,
                       oldContent |-> IF Len(VersionFetches(mr.changes, newContent)) >= 2
                                        THEN oldContent ELSE FetchFailed,
                       results |-> results]
                 /\ ckFetches' = VersionFetches(mr.changes, newContent)
                 /\ pc' = "overall"
                 /\ UNCHANGED failedAt
  /\ UNCHANGED <<envVars, cdVars, outVars, trigger, req, filteredChanges, handed,
                 llmCalls, thrVars, idx, approveCalls, fetches, fileReview, fileReviews,
                 overallReview,
                 recommendation, slack, response, ack>>

\* claudeService.getOverallReview: one request, its failure answered by the stub
getOverallReview ==
  /\ pc = "overall"
  /\ llmCalls' = llmCalls + 1
  /\ \E ok \in BOOLEAN :
       IF ok THEN overallReview' \in Narratives ELSE overallReview' = T_Stub
  /\ pc' = "postOverall"
  /\ UNCHANGED <<envVars, cdVars, outVars, trigger, req, failedAt, filteredChanges, handed,
                 thrVars, idx, approveCalls, fetches, fileReview, fileReviews, recommendation,
                 slack, checklistResults, ckFetches,
                 response, ack>>

\* the summary comment, then extractRecommendation
PostOverallReview ==
  /\ pc = "postOverall"
  /\ noteCalls' = Append(noteCalls, PlainBody(overallReview))
  /\ \E ok \in BOOLEAN :
       IF ok THEN /\ notes' = Append(notes, PlainBody(overallReview))
                  /\ recommendation' = extractRecommendation(overallReview)
                  /\ pc' = "approve"
                  /\ UNCHANGED failedAt
             ELSE RaiseInReview("postOverall") /\ UNCHANGED <<notes, recommendation>>
  /\ UNCHANGED <<envVars, cdVars, posted, accepted, trigger, req, filteredChanges, handed,
                 llmCalls, thrVars, idx, approveCalls, fetches, fileReview, fileReviews,
                 overallReview,
                 slack, checklistResults, ckFetches, response, ack>>

\* a variant that approves unless changes are requested
IsApprove_UnlessRequestChanges(r) == r # L_REQUEST

\* recommendation === 'APPROVE'
IsApprove(r) == r = L_APPROVE

\* if (recommendation === 'APPROVE') await approveMergeRequest(...)
ApproveRecommended ==
  /\ pc = "approve"
  /\ IF IsApprove(recommendation)
       THEN /\ approveCalls' = approveCalls + 1
            /\ \E ok \in BOOLEAN :
                 IF ok THEN pc' = "postChecklist" /\ UNCHANGED failedAt
                       ELSE RaiseInReview("approve")
       ELSE pc' = "postChecklist" /\ UNCHANGED <<approveCalls, failedAt>>
  /\ UNCHANGED <<envVars, cdVars, outVars, trigger, req, filteredChanges, handed, llmCalls,
                 thrVars, idx, catVars, response, ack>>

\* the checklist compliance comment
PostChecklistComment ==
  /\ pc = "postChecklist"
  /\ noteCalls' = Append(noteCalls, PlainBody("checklist"))
  /\ \E ok \in BOOLEAN :
       IF ok THEN /\ notes' = Append(notes, PlainBody("checklist"))
                  /\ pc' = "notify"
                  /\ UNCHANGED failedAt
             ELSE RaiseInReview("postChecklist") /\ UNCHANGED notes
  /\ UNCHANGED <<envVars, cdVars, posted, accepted, trigger, req, filteredChanges, handed,
                 llmCalls, thrVars, idx, approveCalls, catVars, response, ack>>

\* a notification: the JavaScript module catches a failed send, the
\* TypeScript one logs it and throws
Notify(kind, ok) == slack' = Append(slack, [kind |-> kind, ok |-> ok])
NotifyThrows(ok) == variant = "ts" /\ ~ok

\* slack.sendReviewCompletedNotification, then return reviewData
NotifyCompleted ==
  /\ pc = "notify"
  /\ \E ok \in BOOLEAN :
       /\ Notify("completed", ok)
       /\ IF NotifyThrows(ok)
            THEN RaiseInReview("notify") /\ UNCHANGED response
            ELSE pc' = "done" /\ response' = "returned" /\ UNCHANGED failedAt
  /\ UNCHANGED <<envVars, cdVars, outVars, trigger, req, filteredChanges, handed,
                 llmCalls, thrVars, idx, approveCalls, fetches, fileReview, fileReviews,
                 overallReview,
                 recommendation, ack, checklistResults, ckFetches>>

\* what the caller gets thrown: the error caught, or the error of a
\* sendErrorMessage that threw
Thrown(caught, ok) == IF NotifyThrows(ok) THEN "thrown by sendErrorMessage" ELSE caught

\* reviewMergeRequest's catch block: slack.sendErrorMessage (awaited in the
\* TypeScript service only), then throw; handleMergeRequestWebhook of the
\* TypeScript service catches what is thrown
CatchError ==
  /\ pc = "catch"
  /\ \E ok \in BOOLEAN :
       /\ Notify("error", ok)
       /\ response' = Thrown("thrown", ok)
  /\ pc' = IF trigger = "gitlab" /\ variant = "ts" THEN "handlerCatch" ELSE "done"
  /\ UNCHANGED <<envVars, cdVars, outVars, trigger, req, failedAt, filteredChanges, handed,
                 llmCalls, thrVars, idx, approveCalls, fetches, fileReview, fileReviews,
                 overallReview,
                 recommendation, ack, checklistResults, ckFetches>>

\* handleMergeRequestWebhook's catch block (TypeScript service):
\* slack.sendErrorMessage again, then throw to the detached task, which logs
HandlerCatch ==
  /\ pc = "handlerCatch"
  /\ \E ok \in BOOLEAN :
       /\ Notify("error", ok)
       /\ response' = Thrown(response, ok)
  /\ pc' = "done"
  /\ UNCHANGED <<envVars, cdVars, outVars, trigger, req, failedAt, filteredChanges, handed,
                 llmCalls, thrVars, idx, approveCalls, fetches, fileReview, fileReviews,
                 overallReview,
                 recommendation, ack, checklistResults, ckFetches>>

CategoricalStep ==
  \/ RouteGitlab
  \/ RouteReview
  \/ ReviewStart
  \/ GetChangedFiles
  \/ ReviewFile
  \/ getFileReview
  \/ PostFileComment
  \/ evaluateChecklist
  \/ getOverallReview
  \/ PostOverallReview
  \/ ApproveRecommended
  \/ PostChecklistComment
  \/ NotifyCompleted
  \/ CatchError
  \/ HandlerCatch

\* a request to either route; the merge requests a hook is tried on are few
InitCategorical ==
  /\ impl = "v12"
  /\ variant \in {"js", "ts"}
  /\ trigger \in {"gitlab", "review"}
  /\ req \in IF trigger = "gitlab" THEN GitlabRequests ELSE ReviewRequests
  /\ mr \in [diff_refs : {TRUE},
             changes : IF trigger = "gitlab" THEN {<<F_app>>, <<F_version>>}
                       ELSE ChangeSets \cup VersionChangeSets
                            \cup {<<F_app, FileChange(P_zz, <<HdrLine, AddLine>>, FALSE, 100)>>},
             description : IF trigger = "gitlab" THEN {<<>>}
                           ELSE {d \in Descriptions : Len(d) = 0 \/ Len(d[1]) > 20}]
  /\ pc = "route"

\* ------------------------------------------------------------ the runs
InitRun ==
  /\ runs = <<>>
  /\ cdArgs = <<>> /\ cdPc = "idle" /\ cdFileDiff = <<>> /\ cdFinalLine = Null /\ cdNote = <<>>
  /\ posted = <<>> /\ accepted = 0 /\ noteCalls = <<>> /\ notes = <<>>
  /\ InitThreshold \/ InitCategorical
  /\ failedAt = ""
  /\ filteredChanges = <<>>
  /\ handed = <<>>
  /\ llmCalls = 0
  /\ review = NoReview
  /\ idx = 0
  /\ fetches = <<>>
  /\ fileReview = <<>>
  /\ fileReviews = <<>>
  /\ overallReview = <<>>
  /\ recommendation = <<>>
  /\ approveCalls = 0
  /\ slack = <<>>
  /\ response = "none"
  /\ ack = 0
  /\ checklistResults = <<>>
  /\ ckFetches = <<>>

Next == ThresholdStep \/ CategoricalStep \/ CreateDiscussionStep

Spec == InitRun /\ [][Next]_vars

\* ------------------------------------------------------------ the checklist alone
\* evaluateChecklist on a description, a change-set and a list of findings
InitChecklist ==
  /\ runs = <<>>
  /\ cdArgs = <<>> /\ cdPc = "idle" /\ cdFileDiff = <<>> /\ cdFinalLine = Null /\ cdNote = <<>>
  /\ posted = <<>> /\ accepted = 0 /\ noteCalls = <<>> /\ notes = <<>>
  /\ impl = "v12"
  /\ variant = "js"
  /\ trigger = "review"
  /\ req = [projectId |-> 7, mergeRequestIid |-> 7]
  /\ mr \in [diff_refs : {TRUE},
             changes : VersionChangeSets
                       \cup {<<F_app>>,
                             <<FileChange(<<"src", "/", "services", "/", "api", ".", "js">>,
                                          <<HdrLine, AddLine>>, FALSE, 100)>>,
                             <<FileChange(<<"api", ".", "proto">>, <<HdrLine, AddLine>>, FALSE, 100),
                               FileChange(<<"src", "/", "routes", "/", "api", ".", "js">>,
                                          <<HdrLine, AddLine>>, FALSE, 100)>>},
             description : Descriptions]
  /\ pc = "checklist"
  /\ failedAt = ""
  /\ filteredChanges = <<>>
  /\ handed = <<>>
  /\ llmCalls = 0
  /\ review = NoReview
  /\ idx = 1
  /\ fetches = <<>>
  /\ fileReview = <<>>
  /\ fileReviews \in
       SeqsOf([path : {P_app, P_zz},
               review : {R_Review,
                         <<"Function", " is ", "too long", "try-catch", "missing", "null check">>,
                         <<"slack", "notification", "Promise.all">>,
                         <<"for ", "lambda", "verbose", "early return", "translation">>}],
              0, MaxFiles)
  /\ overallReview = <<>>
  /\ recommendation = <<>>
  /\ approveCalls = 0
  /\ slack = <<>>
  /\ response = "none"
  /\ ack = 202
  /\ checklistResults = <<>>
  /\ ckFetches = <<>>

SpecChecklist == InitChecklist /\ [][evaluateChecklist]_vars

\* ------------------------------------------------------------ concurrent runs
\* router.post('/review') for trigger r: the required fields, the detached
\* task, the 202 answer; nothing is looked up about the other triggers
ConcRoute_Dedup(r) ==
  /\ runs[r].pc = "route"
  /\ runs' = [runs EXCEPT ![r].ack = 202,
                          ![r].pc = IF \E q \in DOMAIN runs : q # r /\ runs[q].ack = 202
                                      THEN "done" ELSE "start"]
  /\ UNCHANGED <<impl, mr, variant, cdVars, outVars, plVars>>

ConcRoute(r) ==
  /\ runs[r].pc = "route"
  /\ runs' = IF Falsy(req.projectId) \/ Falsy(req.mergeRequestIid)
               THEN [runs EXCEPT ![r].ack = 400, ![r].pc = "done"]
               ELSE [runs EXCEPT ![r].ack = 202, ![r].pc = "start"]
  /\ UNCHANGED <<impl, mr, variant, cdVars, outVars, plVars>>

\* reviewMergeRequest of run r up to its next await: the details and the
\* change list, the file comments, the summary comment and the label, the
\* approval; a failed call ends the run in its catch block. The comments and
\* the approvals go to the one merge request.
ConcStep(r) ==
  /\ runs[r].pc \in {"start", "files", "overall", "postOverall", "approve"}
  /\ \E ok \in BOOLEAN :
       LET me == runs[r]
           Note(kind, body) == [run |-> r, kind |-> kind, body |-> body]
       IN IF ~ok /\ (me.pc # "approve" \/ IsApprove(me.recommendation))
            THEN /\ runs' = [runs EXCEPT ![r].pc = "failed"]
                 /\ approveCalls' = IF me.pc = "approve" THEN approveCalls + 1 ELSE approveCalls
                 /\ UNCHANGED notes
          ELSE CASE me.pc = "start" ->
                      /\ runs' = [runs EXCEPT ![r].pc = "files"]
                      /\ UNCHANGED <<notes, approveCalls>>
                 [] me.pc = "files" ->
                      /\ notes' = notes \o
                           [i \in 1..Len(FilterReviewable(mr.changes)) |->
                              Note("file", FilterReviewable(mr.changes)[i].new_path)]
                      /\ runs' = [runs EXCEPT ![r].pc = "overall"]
                      /\ UNCHANGED approveCalls
                 [] me.pc = "overall" ->
                      /\ \E text \in {Narrative(<<>>, L_APPROVE, <<>>),
                                      Narrative(<<>>, L_REQUEST, <<>>)} :
                           runs' = [runs EXCEPT ![r].pc = "postOverall",
                                                ![r].overallReview = text]
                      /\ UNCHANGED <<notes, approveCalls>>
                 [] me.pc = "postOverall" ->
                      /\ notes' = Append(notes, Note("summary", me.overallReview))
                      /\ runs' = [runs EXCEPT
                                    ![r].pc = "approve",
                                    ![r].recommendation = extractRecommendation(me.overallReview)]
                      /\ UNCHANGED approveCalls
                 [] me.pc = "approve" ->
                      /\ approveCalls' = IF IsApprove(me.recommendation)
                                           THEN approveCalls + 1 ELSE approveCalls
                      /\ runs' = [runs EXCEPT ![r].pc = "done",
                                              ![r].approved = IsApprove(me.recommendation)]
                      /\ UNCHANGED notes
  /\ UNCHANGED <<impl, mr, variant, cdVars, posted, accepted, noteCalls, trigger, req, pc,
                 failedAt, filteredChanges, handed, llmCalls, thrVars, idx, catVars,
                 response, ack>>

\* MaxRuns requests to /review that name the same merge request
InitConc ==
  /\ cdArgs = <<>> /\ cdPc = "idle" /\ cdFileDiff = <<>> /\ cdFinalLine = Null /\ cdNote = <<>>
  /\ posted = <<>> /\ accepted = 0 /\ noteCalls = <<>> /\ notes = <<>>
  /\ impl = "v12"
  /\ variant = "ts"
  /\ trigger = "review"
  /\ req \in {r \in ReviewRequests : r.mergeRequestIid = 7 /\ r.projectId # 0}
  /\ mr = [diff_refs |-> TRUE, changes |-> <<F_app>>, description |-> <<>>]
  /\ runs = [r \in 1..MaxRuns |->
               [pc |-> "route", ack |-> 0, overallReview |-> <<>>, recommendation |-> <<>>,
                approved |-> FALSE]]
  /\ pc = "idle"
  /\ failedAt = ""
  /\ filteredChanges = <<>>
  /\ handed = <<>>
  /\ llmCalls = 0
  /\ review = NoReview
  /\ idx = 0
  /\ fetches = <<>>
  /\ fileReview = <<>>
  /\ fileReviews = <<>>
  /\ overallReview = <<>>
  /\ recommendation = <<>>
  /\ approveCalls = 0
  /\ slack = <<>>
  /\ response = "none"
  /\ ack = 0
  /\ checklistResults = <<>>
  /\ ckFetches = <<>>

SpecConc == InitConc /\ [][\E r \in 1..MaxRuns : ConcRoute(r) \/ ConcStep(r)]_vars

\* ============================================================ properties
\* the diff has a line that starts with "+"
HasAddition(diff) ==
  LET diffLines == Split(diff, NL) IN
  \E i \in 1..Len(diffLines) : StartsWith(diffLines[i], "+")

NotDeletion(diffLine) == ~StartsWith(diffLine, "-")
IsAdditionOrContext(diffLine) == StartsWith(diffLine, "+") \/ StartsWith(diffLine, " ")

\* the diff line that new-file line n designates, counting as the walk
\* counts (every line that is not a deletion), is an addition or a context line
DesignatesAdditionOrContext(diff, n) ==
  LET counted == SelectSeq(Split(diff, NL), NotDeletion) IN
  n \in 1..Len(counted) /\ IsAdditionOrContext(counted[n])

\* C1: in createDiscussion (v12), for a file diff with at least one "+" line,
\* every positioned discussion request carries a new_line that designates an
\* addition or context line of that diff.
C1_NewLineIsAdditionOrContext ==
  (impl = "v12" /\ cdFileDiff # <<>> /\ HasAddition(cdFileDiff[1].diff))
    => \A i \in 1..Len(posted) :
         DesignatesAdditionOrContext(cdFileDiff[1].diff, posted[i].new_line)

\* C2: in createDiscussion (v12), for a file diff with no "+" line no
\* positioned discussion request is sent, and a call that returns has posted
\* the note as a plain comment.
C2_NoAdditionNoDiscussion ==
  (impl = "v12" /\ cdFileDiff # <<>> /\ ~HasAddition(cdFileDiff[1].diff))
    => /\ posted = <<>>
       /\ cdPc = "returned" => \E i \in 1..Len(notes) : notes[i].text = cdArgs.comment

\* C3: reviewCode hands the reviewer no changed file whose basename is an
\* entry of the resolved ignore list or whose extension is excluded.
C3_NoIgnoredFileHanded ==
  trigger \in {"webhook", "tool"}
    => \A i \in 1..Len(handed) :
         /\ ~ListIncludes(ResolveIgnoreFiles(req.ignore_files), Basename(handed[i].new_path))
         /\ getFileExtension(handed[i].new_path) \notin excludedExtensions

\* C4: a run whose filter leaves no file to review sends no request to the
\* text-generation service (filteredChanges is empty before the filter too,
\* when no request has been sent yet).
C4_NothingToReviewNoCalls ==
  filteredChanges = <<>> => llmCalls = 0

\* C5: for a narrative whose "## Recommendation" header is followed by one of
\* the three labels, extractRecommendation returns that label.
C5_LabelExtracted ==
  \A l \in Labels :
    (recommendation # <<>>
       /\ overallReview \in {Narrative(<<>>, l, <<>>), Narrative(T_Summary, l, T_Actions)})
      => recommendation = l

\* some label follows a "## Recommendation" header and white space (any case)
HasLabel(text) ==
  \E i \in 1..Len(text) :
    /\ MatchesAt(text, i, T_Header)
    /\ \E k \in 1..(Len(text) - i) :
         /\ \A m \in 0..(k - 1) :
              i + Len(T_Header) + m <= Len(text) /\ IsSpace(text[i + Len(T_Header) + m])
         /\ \E l \in Labels : MatchesAt(text, i + Len(T_Header) + k, l)

\* C6: a run whose overall narrative carries no label after the header (the
\* stub of a failed overall-review call included) has the recommendation
\* PENDING REVIEW and sends no approval.
C6_UnlabelledIsPending ==
  (trigger \in {"gitlab", "review"} /\ ~HasLabel(overallReview))
    => /\ approveCalls = 0
       /\ recommendation # <<>> => recommendation = L_PENDING
       /\ pc \in {"approve", "postChecklist", "notify"} => recommendation = L_PENDING

C6_Witness ==
  /\ trigger = "review" /\ pc = "done" /\ response = "returned"
  /\ overallReview = T_Stub
  /\ recommendation = L_PENDING
  /\ approveCalls = 0

\* the aggregated outcome of the run is an approval
OutcomeIsApproval ==
  IF trigger \in {"gitlab", "review"} THEN recommendation = L_APPROVE
  ELSE review # NoReview /\ review.score >= ApproveThreshold

C8_ThresholdInclusive ==
  trigger \in {"webhook", "tool"}
    => /\ approveCalls >= 1 => review.score >= 80
       /\ (pc = "done" /\ failedAt \in {"", "approve"})
            => (approveCalls = 1 <=> (review # NoReview /\ review.score >= 80))

C8_Witness ==
  /\ trigger \in {"webhook", "tool"} /\ pc = "done" /\ failedAt = ""
  /\ review.score = 80
  /\ approveCalls = 1

\* C9: when the positioned discussion request fails, createDiscussion ends by
\* returning, having posted exactly one plain comment with the note text and
\* the file and line of the note.
C9_FailedDiscussionFallsBack ==
  (Len(posted) > accepted /\ cdPc \in {"returned", "raised"})
    => /\ cdPc = "returned"
       /\ Len(noteCalls) = 1 /\ Len(notes) = 1
       /\ notes[1].text = cdArgs.comment
       /\ notes[1].file = cdArgs.filePath
       /\ notes[1].line = cdArgs.line

\* C10: when createDiscussion returns for a non-empty note, a positioned
\* discussion was created or a plain comment with the note was posted.
C10_NoNoteDropped ==
  (cdPc = "returned" /\ cdArgs.comment # "")
    => \/ accepted >= 1
       \/ \E i \in 1..Len(notes) : notes[i].text = cdArgs.comment

\* the run is one of reviewMergeRequest, started by either route
Categorical == trigger \in {"gitlab", "review"}

\* what reviewMergeRequest's caller gets once the run is over
RunOver == Categorical /\ pc = "done" /\ response \in {"returned", "thrown", "thrown by sendErrorMessage"}

Notifications(kind) == Cardinality({ i \in 1..Len(slack) : slack[i].kind = kind })

\* C11: a run that succeeds has emitted exactly one completion notification
\* and no error notification; a run that fails has emitted exactly one error
\* notification and no completion notification, under either trigger.
C11_OneNotificationPerRun ==
  RunOver =>
    IF response = "returned"
      THEN Notifications("completed") = 1 /\ Notifications("error") = 0
      ELSE Notifications("error") = 1 /\ Notifications("completed") = 0

\* C12: a notification that fails does not make the run fail or change what
\* it returns: after a failed completion notification the run returns, and
\* no run ends with the error of a failed error notification.
C12_NotificationFailureSwallowed ==
  RunOver =>
    /\ (\E i \in 1..Len(slack) : slack[i].kind = "completed" /\ ~slack[i].ok)
         => response = "returned"
    /\ response # "thrown by sendErrorMessage"

\* C13: for every HTTP trigger the acknowledgment is sent before the pipeline
\* runs (once the request is past the route, a status has been answered), and
\* the status of an accepted request is the trigger's fixed success status.
C13_AcknowledgedAtOnce ==
  trigger \in {"webhook", "gitlab", "review"} =>
    /\ pc \notin {"recv", "route"} => ack # 0
    /\ ack \in {0, 400, 401, IF trigger = "webhook" THEN 200 ELSE 202}

\* a run of reviewMergeRequest has started
Started == Categorical /\ pc # "route" /\ ~(pc = "done" /\ response \in {"none", "no review"})

NoCollaboratorCall ==
  /\ fetches = <<>> /\ ckFetches = <<>> /\ llmCalls = 0
  /\ noteCalls = <<>> /\ approveCalls = 0 /\ slack = <<>>

\* C14: an authorized webhook delivery starts a review iff it is a
\* merge-request event with action open or update and state opened; any other
\* payload causes no fetch, comment, approval or notification.
C14_ReviewIffOpenOrUpdateOpened ==
  (trigger = "gitlab" /\ pc # "route" /\ req.token) =>
    LET accepted_ == /\ req.object_kind = "merge_request"
                     /\ req.action \in {"open", "update"}
                     /\ req.state = "opened"
    IN /\ Started <=> accepted_
       /\ ~accepted_ => NoCollaboratorCall

\* C15 as stated: a manual trigger that lacks projectId or mergeRequestIid is
\* answered 400 and starts no run; one that carries both is answered 202 and
\* starts the run.
C15_ManualTriggerRequiresFields ==
  (trigger = "review" /\ pc # "route") =>
    IF req.projectId = Undefined \/ req.mergeRequestIid = Undefined
      THEN ack = 400 /\ ~Started /\ NoCollaboratorCall
      ELSE ack = 202 /\ Started

\* C15 amended: a manual trigger whose projectId or mergeRequestIid is absent
\* or 0 is answered 400 and starts no run; any other is answered 202 and
\* starts the run of reviewMergeRequest.
C15_ManualTriggerRequiresTruthyFields ==
  (trigger = "review" /\ pc # "route") =>
    IF req.projectId \in {Undefined, 0} \/ req.mergeRequestIid \in {Undefined, 0}
      THEN ack = 400 /\ ~Started /\ NoCollaboratorCall
      ELSE ack = 202 /\ Started

C15_Witness ==
  /\ trigger = "review" /\ pc = "changedFiles"
  /\ req.projectId = 7 /\ req.mergeRequestIid = 7
  /\ ack = 202

\* reviewChanges has been called and has answered or raised
ReviewChangesOver ==
  /\ trigger \in {"webhook", "tool"}
  /\ Len(filteredChanges) <= MAX_CHANGES_THRESHOLD
  /\ \/ pc \in {"summary", "discuss", "inDiscussion"}
     \/ pc = "done" /\ failedAt \in {"llm", "parse", "summary", "discuss", "approve"}
     \/ pc = "done" /\ response \in {"200 review triggered", "approved", "needs_work"}

\* C16: when the serialized change-set is longer than 30000 characters
\* reviewChanges answers score 0 with no specific comments and sends no
\* request; at 30000 characters or fewer it sends one.
C16_CeilingBoundsTheCall ==
  ReviewChangesOver =>
    IF 2 + SumSizes(filteredChanges) + (IF Len(filteredChanges) > 1 THEN Len(filteredChanges) - 1 ELSE 0) > 30000
      THEN llmCalls = 0 /\ review.score = 0 /\ review.specificComments = <<>>
      ELSE llmCalls = 1

C16_Witness ==
  /\ ReviewChangesOver /\ pc = "done"
  /\ filteredChanges = <<F_big>>
  /\ llmCalls = 1

\* a failure happened while one file was reviewed: its content fetch failed,
\* or its text-generation call failed and the stub stands for its review
FileReviewFailed ==
  \/ failedAt = "files"
  \/ \E i \in 1..Len(fileReviews) : fileReviews[i].review = R_Stub
  \/ fileReview # <<>> /\ fileReview.review = R_Stub

\* C17: a run in which only the review of a file failed goes on: every file
\* to review that is not deleted is handed to the reviewer and the summary is
\* published.
C17_FileFailureContinues ==
  (Categorical /\ pc = "done" /\ FileReviewFailed /\ failedAt \in {"", "files"}) =>
    /\ \A i \in 1..Len(filteredChanges) :
         filteredChanges[i].deleted_file
           \/ \E j \in 1..Len(handed) : handed[j] = filteredChanges[i]
    /\ overallReview # <<>>
    /\ \E i \in 1..Len(notes) : notes[i] = PlainBody(overallReview)

\* C18: in the threshold pipeline an answer that cannot be parsed does not
\* abort the run: the summary is published and nothing is raised to the trigger.
C18_UnparseableAnswerStillPublishes ==
  (trigger \in {"webhook", "tool"} /\ pc = "done" /\ failedAt = "parse") =>
    /\ noteCalls # <<>>
    /\ response \notin {"thrown", "200 error"}

\* C19: when the fetch of the merge-request details or of the changed files
\* fails, no file is reviewed, no comment is posted, no approval is sent, one
\* error notification is sent by reviewMergeRequest, and when that
\* notification goes through the run ends by throwing the error caught.
C19_FetchFailureAborts ==
  (Categorical /\ failedAt \in {"start", "changedFiles"}) =>
    /\ handed = <<>> /\ fetches = <<>> /\ llmCalls = 0
    /\ noteCalls = <<>> /\ approveCalls = 0
    /\ pc \in {"catch", "handlerCatch", "done"}
    /\ pc # "catch" => Len(slack) >= 1 /\ slack[1].kind = "error"
    /\ (pc = "done" /\ \A i \in 1..Len(slack) : slack[i].ok) => response = "thrown"

C19_Witness ==
  /\ trigger = "review" /\ variant = "ts" /\ pc = "done"
  /\ failedAt = "changedFiles"
  /\ slack = <<[kind |-> "error", ok |-> TRUE]>>
  /\ response = "thrown"

\* the version rule has run on a change-set
VersionChecked == checklistResults # <<>>

\* C20: the version rule fails with the "not updated" message when no
\* manifest is in the change-set, fails with the "not increased" message when
\* the old and the new manifest carry the same version, and passes with a
\* message citing the old and the new version when they differ.
C20_VersionBumpRule ==
  VersionChecked =>
    LET r == checklistResults.versionUpdate
        old == checklistResults.oldContent
        new == checklistResults.newContent
        none == \A i \in 1..Len(mr.changes) :
                  /\ mr.changes[i].new_path # <<"version", ".", "json">>
                  /\ ~(Len(mr.changes[i].new_path) > 3
                       /\ SubSeq(mr.changes[i].new_path, Len(mr.changes[i].new_path) - 3,
                                 Len(mr.changes[i].new_path)) = <<"/", "version", ".", "json">>)
    IN /\ none => ~r.updated /\ r.message = M_NotUpdated
       /\ (~none /\ old.fetched /\ old.parses /\ new.parses)
            => IF old.version = new.version
                 THEN ~r.updated /\ r.message = M_NotIncreased
                 ELSE /\ r.updated
                      /\ r.message = <<"Version was updated from ", old.version, " to ", new.version>>

C20_Witness ==
  /\ VersionChecked
  /\ checklistResults.versionUpdate.updated
  /\ checklistResults.oldContent = Manifest("1.0.0")
  /\ checklistResults.newContent = Manifest("1.0.1")

\* the rule identifiers of evaluateChecklist's result
RuleIds ==
  {"diffDescription", "trelloLink", "versionUpdate", "trelloDescription", "protoFiles",
   "errorHandling", "functionLength", "singlePurpose", "nullChecks", "codeConcion",
   "lambdaUsage", "earlyReturns", "promiseAll", "localization"}

\* C21: whatever the description (absent and empty included), the change-set,
\* the findings and the outcome of the content fetches, evaluateChecklist does
\* not throw, and its result has an entry for exactly the same rule
\* identifiers, each entry with a status and a message.
C21_ChecklistIsTotal ==
  /\ failedAt # "checklist"
  /\ pc = "checklist" => checklistResults = <<>>
  /\ pc # "checklist" =>
       /\ checklistResults # <<>>
       /\ DOMAIN checklistResults.results = RuleIds
       /\ \A id \in RuleIds :
            /\ DOMAIN checklistResults.results[id] = {"status", "message"}
            /\ checklistResults.results[id].status \in {"true", "false", "undefined", "''"}
            /\ Len(checklistResults.results[id].message) >= 1

\* the checklist of a merge request without a description, with a finding
\* that a rule flags
C21_Witness ==
  /\ pc = "overall"
  /\ mr.description = <<>>
  /\ checklistResults # <<>>
  /\ checklistResults.results["diffDescription"].status = "undefined"
  /\ checklistResults.results["promiseAll"].status = "false"
  /\ checklistResults.results["versionUpdate"].message = M_CheckError

\* C22: triggers for the same merge request are neither deduplicated nor
\* serialized: every accepted trigger starts a run of its own, and a run
\* that gets that far publishes its own summary comment, reads the label of
\* its own narrative and takes its own approval decision.
C22_RunsAreIndependent ==
  \A r \in DOMAIN runs :
    LET me == runs[r]
        IsMySummary(n) == n.run = r /\ n.kind = "summary"
    IN me.ack = 202 =>
         /\ me.pc # "route"
         /\ me.pc \in {"approve", "done"} =>
              /\ SelectSeq(notes, IsMySummary)
                   = <<[run |-> r, kind |-> "summary", body |-> me.overallReview]>>
              /\ me.recommendation = extractRecommendation(me.overallReview)
         /\ me.pc = "done" => me.approved = IsApprove(me.recommendation)

\* two runs on one merge request, interleaved: each posts its file comment
\* before the other posts its summary, one approves and the other does not
C22_Witness ==
  /\ DOMAIN runs = 1..MaxRuns
  /\ runs[1].pc = "done" /\ runs[2].pc = "done"
  /\ runs[1].approved /\ ~runs[2].approved
  /\ approveCalls = 1
  /\ \E i, j, k, l \in 1..Len(notes) :
       /\ i < j /\ j < k /\ k < l
       /\ notes[i].run = 1 /\ notes[i].kind = "file"
       /\ notes[j].run = 2 /\ notes[j].kind = "file"
       /\ notes[k].run = 1 /\ notes[k].kind = "summary"
       /\ notes[l].run = 2 /\ notes[l].kind = "summary"

\* the new-file line a hunk header "@@ -a +c @@" starts at
HunkStart(header) ==
  LET k == CHOOSE i \in 1..Len(header) : header[i] = "+" IN
  CASE header[k + 1] = "1" -> 1
    [] header[k + 1] = "3" -> 3

\* the new-file line number of the first addition or context line of the
\* diff: hunk headers set the number, additions and context lines advance it
\* (a diff with no header starts at line 1); Null when there is none
RECURSIVE FirstAddable(_, _, _)
FirstAddable(diffLines, i, next) ==
  IF i > Len(diffLines) THEN Null
  ELSE IF StartsWith(diffLines[i], "@") THEN FirstAddable(diffLines, i + 1, HunkStart(diffLines[i]))
  ELSE IF IsAdditionOrContext(diffLines[i]) THEN next
  ELSE FirstAddable(diffLines, i + 1, next)

\* the walk of createDiscussion (v12) ends without reaching the requested line
WalkMissesLine ==
  /\ impl = "v12" /\ cdFileDiff # <<>>
  /\ cdArgs.line \notin 1..Len(SelectSeq(Split(cdFileDiff[1].diff, NL), NotDeletion))

\* C23: when the walk ends without reaching the requested line and the diff
\* has an addition or context line, the discussion createDiscussion (v12)
\* requests is anchored at the first such line of the diff, by its number in
\* the new file.
C23_FallbackIsFirstAddable ==
  (WalkMissesLine /\ FirstAddable(Split(cdFileDiff[1].diff, NL), 1, 1) # Null)
    => \A i \in 1..Len(posted) :
         posted[i].new_line = FirstAddable(Split(cdFileDiff[1].diff, NL), 1, 1)

\* C28: whenever createDiscussion (v12) falls back to the first valid line,
\* the new_line of the discussion it requests is 1, whichever line of the
\* diff is the first that does not start with "-".
C28_FallbackLineIsOne ==
  WalkMissesLine => \A i \in 1..Len(posted) : posted[i].new_line = 1

\* a fallback on a diff whose first addition is line 3 of the new file
C28_Witness ==
  /\ WalkMissesLine
  /\ cdArgs.line = MaxLine
  /\ Len(posted) = 1 /\ posted[1].new_line = 1
  /\ FirstAddable(Split(cdFileDiff[1].diff, NL), 1, 1) = 3

\* the files of the loop that are not deleted, in change-set order
NotDeleted(file) == ~file.deleted_file
LiveFiles == SelectSeq(filteredChanges, NotDeleted)

\* C24: the per-file reviews of a run are strictly sequential: the content
\* fetches and the review requests go file by file in change-set order, at
\* most one file is under review at a time (its comment is sent before the
\* next file's content is fetched), and the findings are kept in change-set
\* order.
C24_FileReviewsAreSequential ==
  (Categorical /\ DOMAIN runs = {}) =>
    /\ Len(handed) <= Len(fetches) /\ Len(fetches) <= Len(handed) + 1
    /\ Len(fetches) = Len(handed) + 1 <=> pc = "fileReview"
    /\ Len(fetches) <= Len(noteCalls) + 1
    /\ handed = SubSeq(LiveFiles, 1, Len(handed))
    /\ \A i \in 1..Len(fetches) : fetches[i] = LiveFiles[i].new_path
    /\ \A i \in 1..Len(fileReviews) : fileReviews[i].path = LiveFiles[i].new_path
    /\ \A i \in 1..Len(noteCalls) :
         i <= Len(handed) /\ ~(pc = "filePost" /\ i = Len(handed))
           => noteCalls[i].text.path = LiveFiles[i].new_path

\* two files reviewed one after the other, their findings kept in order
C24_Witness ==
  /\ Categorical /\ variant = "js" /\ pc = "checklist"
  /\ Len(LiveFiles) = 2
  /\ Len(fileReviews) = 2
  /\ fileReviews[1].path = filteredChanges[1].new_path
  /\ fileReviews[2].path = filteredChanges[2].new_path
  /\ fileReviews[1].path # fileReviews[2].path

\* the loop over the files is over and the run went on
LoopOver ==
  /\ Categorical
  /\ \/ pc \in {"checklist", "overall", "postOverall", "approve", "postChecklist", "notify"}
     \/ pc = "done" /\ response = "returned"

\* C25: the text-generation service is called exactly once for each reviewed
\* file (kept by the filter, not deleted) and for no other file; a failed
\* call is not repeated.
C25_OneCallPerReviewedFile ==
  (Categorical /\ DOMAIN runs = {}) =>
    /\ \A i, j \in 1..Len(handed) : handed[i] = handed[j] => i = j
    /\ \A i \in 1..Len(handed) : shouldReviewFile(handed[i]) /\ ~handed[i].deleted_file
    /\ llmCalls \in {Len(handed), Len(handed) + 1}
    /\ pc \in {"files", "fileReview", "filePost", "checklist"} => llmCalls = Len(handed)
    /\ LoopOver => handed = LiveFiles

\* a run whose request for the first of two files failed, and that has
\* called the service once for each
C25_Witness ==
  /\ LoopOver /\ variant = "js"
  /\ Len(fileReviews) = 2 /\ fileReviews[1].review = R_Stub /\ fileReviews[2].review = R_Review
  /\ Len(handed) = 2 /\ llmCalls = 2

\* C26: in the per-file step a deleted file causes no content fetch and no
\* request to the text-generation service.
C26_DeletedFileIsSkipped ==
  (Categorical /\ DOMAIN runs = {}) =>
    /\ \A i \in 1..Len(handed) : ~handed[i].deleted_file
    /\ \A i \in 1..Len(fetches) : \A k \in 1..Len(mr.changes) :
         mr.changes[k].new_path = fetches[i] => ~mr.changes[k].deleted_file

\* a change-set with a deleted file and another one: only the other is fetched
\* and reviewed
C26_Witness ==
  /\ LoopOver
  /\ Len(filteredChanges) = 2 /\ filteredChanges[1].deleted_file
  /\ fetches = <<filteredChanges[2].new_path>>
  /\ handed = <<filteredChanges[2]>>

\* the revision the merge request's diff is based on (diff_refs.base_sha)
BaseRevision == <<"base_sha">>

\* C27: for a manifest that is modified (not new), the version rule fetches
\* the new content at the source branch and the prior content at the diff
\* base revision.
C27_ManifestRevisions ==
  (Categorical /\ DOMAIN runs = {} /\ VersionChecked /\ Len(ckFetches) = 2) =>
    /\ ckFetches[1].ref = SourceBranch
    /\ ckFetches[2].ref = BaseRevision

\* C29: the threshold pipeline publishes in a fixed order: the summary
\* comment, then createDiscussion for each specific comment in list order,
\* then the approval; the approval is attempted only after every
\* createDiscussion call has returned, and not at all when the summary comment
\* or a createDiscussion call raised, whatever the score.
C29_PublishOrder ==
  trigger \in {"webhook", "tool"} =>
    /\ (pc \in {"discuss", "inDiscussion"} \/ approveCalls >= 1 \/ posted # <<>>)
         => (review.overallComment # ""
               => /\ Len(noteCalls) >= 1 /\ noteCalls[1] = PlainBody(review.overallComment)
                  /\ Len(notes) >= 1 /\ notes[1] = PlainBody(review.overallComment))
    /\ cdPc # "idle" =>
         /\ pc = "inDiscussion"
         /\ idx \in 1..Len(review.specificComments)
         /\ cdArgs = review.specificComments[idx]
    /\ approveCalls >= 1 =>
         /\ approveCalls = 1
         /\ idx = Len(review.specificComments) + 1
         /\ cdPc = "idle"
         /\ failedAt \in {"", "approve"}
    /\ failedAt \in {"summary", "discuss"} => approveCalls = 0

\* a review of score 8 with two specific comments: the approval came after
\* both discussions
C29_Witness ==
  /\ trigger = "tool" /\ pc = "done" /\ failedAt = ""
  /\ review.score >= ApproveThreshold
  /\ Len(review.specificComments) = MaxComments
  /\ idx = MaxComments + 1
  /\ Len(posted) + Len(notes) >= MaxComments + 1
  /\ approveCalls = 1

\* C30: when more than 10 files remain after the ignore filter, reviewCode
\* answers score 0 with no specific comments and the service is not called:
\* the run posts that summary and never approves; with exactly 10 files the
\* service is called.
C30_FileCountLimit ==
  trigger \in {"webhook", "tool"} =>
    /\ Len(filteredChanges) > MAX_CHANGES_THRESHOLD =>
         /\ llmCalls = 0
         /\ review.score = 0 /\ review.specificComments = <<>>
         /\ approveCalls = 0 /\ posted = <<>>
         /\ pc # "summary" => /\ Len(noteCalls) = 1
                              /\ noteCalls[1] = PlainBody(TooManyFiles.overallComment)
         /\ (pc = "done" /\ failedAt = "") => notes = <<PlainBody(TooManyFiles.overallComment)>>
    /\ (Len(filteredChanges) = MAX_CHANGES_THRESHOLD /\ pc # "llm") => llmCalls = 1

\* eleven files after the filter: the summary is posted, nothing is approved
C30_Witness ==
  /\ trigger = "webhook" /\ pc = "done" /\ failedAt = ""
  /\ Len(filteredChanges) = MAX_CHANGES_THRESHOLD + 1
  /\ llmCalls = 0 /\ approveCalls = 0
  /\ Len(notes) = 1

====
